---- MODULE Spec2Model ----
(***************************************************************************)
(* WatchParty session store: the room record kept in Redis, the optimistic *)
(* (WATCH / MULTI / EXEC) roster updates of RedisService, the join flow of *)
(* SessionService and the status mapping of SessionHandler.                *)
(*                                                                         *)
(* Every client request is one process.  A process takes one step per      *)
(* Redis round trip, so concurrent requests interleave exactly where the   *)
(* Go code lets them.  The requests a run plays (who calls what, and which *)
(* calls wait for which) are chosen in the initial state and never change. *)
(*                                                                         *)
(* The second part of the module is the WebSocket hub: the connections of  *)
(* the clients, the channels of the Hub and the handlers of Hub.Run.  The  *)
(* two parts share no state: the hub reads only the chat lists of Redis.   *)
(*                                                                         *)
(* The third part is the RateLimiter of the HTTP middleware, the fourth    *)
(* the useWebRTC hook of the WatchRoom page: the peer connections of the   *)
(* pages and the signaling messages the server relays between them.  The  *)
(* fifth part is updatePeerTracks of that hook, for one peer connection.   *)
(* The last parts come back to the server: the chat backlog in Redis, the  *)
(* hub with a ReadPump that waits at Unregister, under fairness of the hub *)
(* loop, and the Session Store together with the connections.              *)
(***************************************************************************)
EXTENDS Integers, Sequences, FiniteSets, TLC

VARIABLES
    store,      \* Redis keyspace: session id -> Session, only for existing keys
    cfgMax,     \* config.MaxParticipants of the running server
    plan,       \* process -> the request it makes (fixed after Init)
    pc,         \* process -> position in its request
    attempt,    \* process -> loop index i of the retry loop
    watch,      \* process -> state of its WATCH on the session key
    snap,       \* process -> <<session>> read by its last GET, <<>> if none/absent
    err,        \* process -> error returned by its request (<<>> is nil)
    status,     \* process -> HTTP status of a join request, 0 otherwise
    client,     \* connection -> its Client fields (fixed after Init)
    cpc,        \* connection -> position of its HandleWebSocket / ReadPump
    nread,      \* connection -> number of frames ReadPump has read from it
    sessions,   \* Hub.sessions: room id -> ids of the registered connections
    Send,       \* connection -> content of its Send channel, oldest first
    broadcast,  \* content of the Hub.broadcast channel, oldest first
    direct,     \* content of the Hub.direct channel, oldest first
    chat,       \* Redis lists chat:<room id>, only for existing keys
    wpump,      \* connection -> position of its WritePump
    unregs,     \* connection -> number of calls of Hub.Unregister for it
    limit,      \* RateLimiter.limit
    requests,   \* RateLimiter.requests: key -> entry, only for existing keys
    now,        \* the clock time.Now() reads
    returns,    \* key -> what the calls of Allow(key) returned, oldest first
    pages,      \* the users whose WatchRoom page is open
    peersRef,   \* <<user, target>> -> PeerConnection of the page of user
    media,      \* user -> the page has a local stream (voice or screen)
    wire,       \* user -> signaling messages on their way to the page
    changes,    \* user -> number of changes of the local streams so far
    senders,    \* peer.getSenders() of one peer connection, in order
    voice,      \* voiceStreamRef.current: the ids of its audio tracks
    screen,     \* screenStreamRef.current: the ids of its tracks, in order
    passes,     \* number of calls of updatePeerTracks so far
    saving,     \* call of Hub.SaveMessage -> position of its goroutine
    saved       \* room id -> the messages pushed to chat:<room id>, in order

sessionVars == <<store, cfgMax, plan, pc, attempt, watch, snap, err, status>>

hubVars == <<client, cpc, nread, sessions, Send, broadcast, direct, chat,
             wpump, unregs>>

limiterVars == <<limit, requests, now, returns>>

pageVars == <<pages, peersRef, media, wire, changes>>

trackVars == <<senders, voice, screen, passes>>

backlogVars == <<saving, saved>>

vars == <<sessionVars, hubVars, limiterVars, pageVars, trackVars, backlogVars>>

\* what the session requests, the hub, the rate limiter and the pages leave
\* alone
outsideSession == <<hubVars, limiterVars, pageVars, trackVars, backlogVars>>

outsideHub == <<sessionVars, limiterVars, pageVars, trackVars, backlogVars>>

outsideLimiter == <<sessionVars, hubVars, pageVars, trackVars, backlogVars>>

outsidePages == <<sessionVars, hubVars, limiterVars, trackVars, backlogVars>>

outsideTracks == <<sessionVars, hubVars, limiterVars, pageVars, backlogVars>>

----------------------------------------------------------------------------
(* Program constants *)

\* maxRetries := 5 in AddParticipant and RemoveParticipant
maxRetries == 5

\* MAX_PARTICIPANTS default of config.Load
DefaultMaxParticipants == 10

(* Bounds of the model *)

\* number of concurrent clients in the general workload
NumClients == 2

\* largest room capacity of the general workload (smallest is 2)
MaxCap == 3

----------------------------------------------------------------------------
(* Errors.  An error is the sequence of its message layers, outermost      *)
(* first: fmt.Errorf("p: %w", e) puts one layer in front of e, and two     *)
(* errors have the same Error() text exactly when the sequences are equal. *)

NoErr == <<>>
ErrNotFound == <<"session not found">>
ErrInvalidPassword == <<"invalid password">>
ErrFull == <<"session is full">>
ErrAddRetries == <<"failed to add participant after retries">>
ErrRemoveRetries == <<"failed to remove participant after retries">>

Wrap(prefix, e) == <<prefix>> \o e

\* innermost layer of an error: what errors.Unwrap reaches at the end
Cause(e) == IF e = NoErr THEN NoErr ELSE <<e[Len(e)]>>

----------------------------------------------------------------------------
(* Sessions *)

HostUser == 0
RoomID == "s1"
AbsentID == "s2"

HashPassword(pw) == <<"hash", pw>>
CheckPassword(pw, hash) == HashPassword(pw) = hash

Session(host, pwHash, participants, max) ==
    [HostID |-> host, PasswordHash |-> pwHash,
     Participants |-> participants, MaxParticipants |-> max]

InSeq(x, s) == \E k \in 1..Len(s) : s[k] = x

RECURSIVE WithoutMutant(_, _)
WithoutMutant(s, x) ==
    IF s = <<>> THEN <<>>
    ELSE IF Head(s) = x THEN WithoutMutant(Tail(s), x)
    ELSE WithoutMutant(Tail(s), x) \o <<Head(s)>>
RECURSIVE Without(_, _)
\* the loop of RemoveParticipant: keep every p # userID, in order
Without(s, x) ==
    IF s = <<>> THEN <<>>
    ELSE IF Head(s) = x THEN Without(Tail(s), x)
    ELSE <<Head(s)>> \o Without(Tail(s), x)

IsFullMutant(s) == Len(s.Participants) > s.MaxParticipants
\* len(session.Participants) >= session.MaxParticipants
IsFull(s) == Len(s.Participants) >= s.MaxParticipants

\* GetSession / tx.Get: <<session>> when the key exists, <<>> for redis.Nil
GetSession(sid) == IF sid \in DOMAIN store THEN <<store[sid]>> ELSE <<>>

AddOutcomeMutant(got, uid) ==
    IF got = <<>> THEN [ret |-> TRUE, e |-> ErrNotFound, new |-> <<>>]
    ELSE IF IsFull(got[1]) THEN [ret |-> TRUE, e |-> ErrFull, new |-> <<>>]
    ELSE IF InSeq(uid, got[1].Participants)
         THEN [ret |-> TRUE, e |-> NoErr, new |-> <<>>]
    ELSE [ret |-> FALSE, e |-> NoErr,
          new |-> <<[got[1] EXCEPT !.Participants = Append(@, uid)]>>]
\* body of the Watch callback of AddParticipant, up to TxPipelined:
\* ret = the callback returns here with e; otherwise new is the data to SET
AddOutcome(got, uid) ==
    IF got = <<>> THEN [ret |-> TRUE, e |-> ErrNotFound, new |-> <<>>]
    ELSE IF InSeq(uid, got[1].Participants)
         THEN [ret |-> TRUE, e |-> NoErr, new |-> <<>>]
    ELSE IF IsFull(got[1]) THEN [ret |-> TRUE, e |-> ErrFull, new |-> <<>>]
    ELSE [ret |-> FALSE, e |-> NoErr,
          new |-> <<[got[1] EXCEPT !.Participants = Append(@, uid)]>>]

RemoveOutcomeMutant(got, uid) ==
    IF got = <<>> THEN [ret |-> TRUE, e |-> NoErr, new |-> <<>>]
    ELSE [ret |-> FALSE, e |-> NoErr,
          new |-> <<[got[1] EXCEPT !.Participants = Without(@, uid)]>>]
\* body of the Watch callback of RemoveParticipant, up to TxPipelined
RemoveOutcome(got, uid) ==
    IF got = <<>> THEN [ret |-> TRUE, e |-> NoErr, new |-> <<>>]
    ELSE IF ~InSeq(uid, got[1].Participants)
         THEN [ret |-> TRUE, e |-> NoErr, new |-> <<>>]
    ELSE [ret |-> FALSE, e |-> NoErr,
          new |-> <<[got[1] EXCEPT !.Participants = Without(@, uid)]>>]

Outcome(op, got, uid) ==
    IF op = "remove" THEN RemoveOutcome(got, uid) ELSE AddOutcome(got, uid)

TxCommitsMutant(w) == TRUE
\* EXEC of a transaction succeeds unless a watched key was touched
TxCommits(w) == w # "dirty"

RetryAgainMutant(i) == i <= maxRetries
\* loop condition i < maxRetries, evaluated after i++
RetryAgain(i) == i < maxRetries

RetriesError(op) == IF op = "remove" THEN ErrRemoveRetries ELSE ErrAddRetries

\* what the request of kind op returns when its store call returned e
TopErr(op, e) ==
    IF op = "join" /\ e # NoErr THEN Wrap("failed to add participant", e) ELSE e

\* the switch on err.Error() of the join handler
JoinStatus(e) ==
    IF e = NoErr THEN 200
    ELSE IF e = ErrNotFound THEN 404
    ELSE IF e = ErrInvalidPassword THEN 401
    ELSE IF e = ErrFull THEN 403
    ELSE 500

StatusOf(op, e) == IF op = "join" THEN JoinStatus(e) ELSE 0

----------------------------------------------------------------------------
(* Requests *)

Procs == DOMAIN plan

\* a request: after is the set of processes whose requests must have
\* returned before the client sends this one
Call(op, sid, uid, pw, after) ==
    [op |-> op, sid |-> sid, uid |-> uid, pw |-> pw, after |-> after]

\* the host's create request: fresh session id, fresh host id
CreateCall == Call("create", RoomID, HostUser, "good", {})

\* a join request of process p: uuid.New() gives an id no one else has
JoinCall(p, sid, pw, after) == Call("join", sid, p, pw, after)

\* requests a client of the general workload may make
ClientCalls(p, after) ==
    {JoinCall(p, RoomID, "good", after), JoinCall(p, RoomID, "bad", after),
     JoinCall(p, AbsentID, "good", after)}
    \cup {Call("add", RoomID, u, "", after) : u \in {HostUser, 1, 2}}
    \cup {Call("remove", RoomID, u, "", after) : u \in {HostUser, 1}}

CanStart(p) ==
    /\ pc[p] = "start"
    /\ \A q \in plan[p].after : pc[q] = "done"

\* a write of the key sid by process p marks every other WATCH of sid dirty
Touch(sid, p) ==
    [q \in Procs |->
        IF q # p /\ plan[q].sid = sid /\ watch[q] # "none" THEN "dirty"
        ELSE watch[q]]

\* the request of p returns e to its caller
Return(p, e) ==
    /\ pc' = [pc EXCEPT ![p] = "done"]
    /\ err' = [err EXCEPT ![p] = e]
    /\ status' = [status EXCEPT ![p] = StatusOf(plan[p].op, e)]

\* the hub of a server no transport connection is ever opened to
NoConnections ==
    /\ client = << >>
    /\ cpc = << >>
    /\ nread = << >>
    /\ sessions = << >>
    /\ Send = << >>
    /\ broadcast = << >>
    /\ direct = << >>
    /\ chat = << >>
    /\ wpump = << >>
    /\ unregs = << >>

\* a rate limiter no request passes through
NoCalls ==
    /\ limit = 1
    /\ requests = << >>
    /\ now = 0
    /\ returns = << >>

\* no WatchRoom page is open
NoPages ==
    /\ pages = {}
    /\ peersRef = << >>
    /\ media = << >>
    /\ wire = << >>
    /\ changes = << >>

\* a peer connection without senders, a page without local streams
NoTracks ==
    /\ senders = <<>>
    /\ voice = <<>>
    /\ screen = <<>>
    /\ passes = 0

\* Hub.SaveMessage is never called
NoSaves ==
    /\ saving = << >>
    /\ saved = << >>

\* the server before the requests of pl are made
Requests(c, pl) ==
    /\ store = << >>
    /\ cfgMax = c
    /\ plan = pl
    /\ pc = [p \in DOMAIN pl |-> "start"]
    /\ attempt = [p \in DOMAIN pl |-> 0]
    /\ watch = [p \in DOMAIN pl |-> "none"]
    /\ snap = [p \in DOMAIN pl |-> <<>>]
    /\ err = [p \in DOMAIN pl |-> NoErr]
    /\ status = [p \in DOMAIN pl |-> 0]

InitWith(c, pl) ==
    /\ Requests(c, pl)
    /\ NoConnections /\ NoCalls /\ NoPages /\ NoTracks /\ NoSaves

Clients == 1..NumClients

\* the general workload: the host creates the room, then every client
\* makes one request, all concurrently
Init ==
    \E c \in 2..MaxCap :
    \E f \in [Clients -> UNION {ClientCalls(p, {0}) : p \in Clients}] :
        /\ \A p \in Clients : f[p] \in ClientCalls(p, {0})
        /\ InitWith(c, [p \in {0} \cup Clients |-> IF p = 0 THEN CreateCall ELSE f[p]])

----------------------------------------------------------------------------
(* Actions *)

\* SessionService.CreateSession: SaveSession of a room whose roster is [host]
CreateSession(p) ==
    /\ CanStart(p)
    /\ plan[p].op = "create"
    /\ store' = [s \in DOMAIN store \cup {plan[p].sid} |->
                    IF s = plan[p].sid
                    THEN Session(plan[p].uid, HashPassword(plan[p].pw),
                                 <<plan[p].uid>>, cfgMax)
                    ELSE store[s]]
    /\ watch' = Touch(plan[p].sid, p)
    /\ Return(p, NoErr)
    /\ UNCHANGED <<cfgMax, plan, attempt, snap>>
    /\ UNCHANGED outsideSession

\* SessionService.JoinSession up to the call of AddParticipant
JoinSession(p) ==
    /\ CanStart(p)
    /\ plan[p].op = "join"
    /\ LET got == GetSession(plan[p].sid) IN
        /\ snap' = [snap EXCEPT ![p] = got]
        /\ IF got = <<>> THEN Return(p, ErrNotFound)
           ELSE IF ~CheckPassword(plan[p].pw, got[1].PasswordHash)
                THEN Return(p, ErrInvalidPassword)
           ELSE IF IsFull(got[1]) THEN Return(p, ErrFull)
           ELSE /\ pc' = [pc EXCEPT ![p] = "watch"]
                /\ UNCHANGED <<err, status>>
    /\ UNCHANGED <<store, cfgMax, plan, attempt, watch>>
    /\ UNCHANGED outsideSession

\* client.Watch(ctx, fn, key): WATCH key, at the top of a loop iteration
Watch(p) ==
    /\ \/ pc[p] = "watch"
       \/ CanStart(p) /\ plan[p].op \in {"add", "remove"}
    /\ watch' = [watch EXCEPT ![p] = "clean"]
    /\ pc' = [pc EXCEPT ![p] = "txget"]
    /\ UNCHANGED <<store, cfgMax, plan, attempt, snap, err, status>>
    /\ UNCHANGED outsideSession

\* tx.Get and the checks of the callback, up to TxPipelined
TxGet(p) ==
    /\ pc[p] = "txget"
    /\ LET got == GetSession(plan[p].sid)
           out == Outcome(plan[p].op, got, plan[p].uid) IN
        /\ snap' = [snap EXCEPT ![p] = got]
        /\ IF out.ret
           THEN /\ watch' = [watch EXCEPT ![p] = "none"]
                /\ Return(p, TopErr(plan[p].op, out.e))
           ELSE /\ pc' = [pc EXCEPT ![p] = "exec"]
                /\ UNCHANGED <<watch, err, status>>
    /\ UNCHANGED <<store, cfgMax, plan, attempt>>
    /\ UNCHANGED outsideSession

\* tx.TxPipelined: MULTI, SET, EXEC; on TxFailedErr the loop goes round
Exec(p) ==
    /\ pc[p] = "exec"
    /\ IF TxCommits(watch[p])
       THEN /\ store' = [s \in DOMAIN store \cup {plan[p].sid} |->
                    IF s = plan[p].sid
                    THEN Outcome(plan[p].op, snap[p], plan[p].uid).new[1]
                    ELSE store[s]]
            /\ watch' = [Touch(plan[p].sid, p) EXCEPT ![p] = "none"]
            /\ Return(p, NoErr)
            /\ UNCHANGED attempt
       ELSE /\ attempt' = [attempt EXCEPT ![p] = @ + 1]
            /\ watch' = [watch EXCEPT ![p] = "none"]
            /\ IF RetryAgain(attempt[p] + 1)
               THEN /\ pc' = [pc EXCEPT ![p] = "watch"]
                    /\ UNCHANGED <<err, status>>
               ELSE Return(p, TopErr(plan[p].op, RetriesError(plan[p].op)))
            /\ UNCHANGED store
    /\ UNCHANGED <<cfgMax, plan, snap>>
    /\ UNCHANGED outsideSession

\* the TTL of the session key runs out: Redis deletes the key
Expire(sid) ==
    /\ sid \in DOMAIN store
    /\ store' = [s \in DOMAIN store \ {sid} |-> store[s]]
    /\ watch' = Touch(sid, -1)
    /\ UNCHANGED <<cfgMax, plan, pc, attempt, snap, err, status>>
    /\ UNCHANGED outsideSession

\* the requests alone: the TTL of the room does not run out during the run
NextLive ==
    \/ \E p \in Procs : CreateSession(p)
    \/ \E p \in Procs : JoinSession(p)
    \/ \E p \in Procs : Watch(p)
    \/ \E p \in Procs : TxGet(p)
    \/ \E p \in Procs : Exec(p)

Next ==
    \/ \E p \in Procs : CreateSession(p)
    \/ \E p \in Procs : JoinSession(p)
    \/ \E p \in Procs : Watch(p)
    \/ \E p \in Procs : TxGet(p)
    \/ \E p \in Procs : Exec(p)
    \/ \E sid \in {RoomID} : Expire(sid)

Spec == Init /\ [][Next]_vars

----------------------------------------------------------------------------
(* Observations used by the properties *)

AllDone == \A p \in Procs : pc[p] = "done"

RoomExists == RoomID \in DOMAIN store

\* the roster of the room, <<>> when the room is gone
Roster == IF RoomExists THEN store[RoomID].Participants ELSE <<>>

AddLike(p) == plan[p].op \in {"add", "join"}

Succeeded(p) == pc[p] = "done" /\ err[p] = NoErr

IsRetriesError(e) == Cause(e) \in {ErrAddRetries, ErrRemoveRetries}

\* the roster process p read at its last GET, <<>> if the room was absent
RosterRead(p) == IF snap[p] = <<>> THEN <<>> ELSE snap[p][1].Participants

----------------------------------------------------------------------------
(* Two callers racing on one room.  The host creates the room, up to two   *)
(* viewers have joined one after the other, then the two racers call       *)
(* concurrently: both AddParticipant with different ids, or both           *)
(* JoinSession.                                                            *)

Preload == {1, 2}
Racers == {3, 4}
RaceCaps == {2, 3, 4, DefaultMaxParticipants}

RacePlan(n, kind) ==
    [p \in {0} \cup {q \in Preload : q <= n} \cup Racers |->
        IF p = 0 THEN CreateCall
        ELSE IF p \in Preload THEN JoinCall(p, RoomID, "good", 0..(p - 1))
        ELSE IF kind = "join" THEN JoinCall(p, RoomID, "good", 0..n)
        ELSE Call("add", RoomID, p, "", 0..n)]

InitRace ==
    \E c \in RaceCaps : \E n \in {0, 1, 2} : \E kind \in {"add", "join"} :
        InitWith(c, RacePlan(n, kind))

SpecRace == InitRace /\ [][NextLive]_vars

\* members of the roster when the race starts: the host and the preloaded
PreloadedSize == Cardinality(Procs \ Racers)

RaceOver == \A p \in Racers : pc[p] = "done"

----------------------------------------------------------------------------
(* Scenario "Movie Night": a room of the default capacity, the host in it, *)
(* and nine viewers joining concurrently: the join of viewer 1 overlaps    *)
(* the joins of viewers 2 to 9, which arrive one after the other.  A tenth *)
(* viewer joins after all nine have returned.                              *)

Viewers == {1, 2, 3, 4, 5, 6, 7, 8, 9}
LastViewers == {10}
LaneStart == {1, 2}

MovieNightPlan ==
    [p \in {0} \cup Viewers \cup LastViewers |->
        IF p = 0 THEN CreateCall
        ELSE IF p \in LastViewers THEN JoinCall(p, RoomID, "good", {0} \cup Viewers)
        ELSE IF p \in LaneStart THEN JoinCall(p, RoomID, "good", {0})
        ELSE JoinCall(p, RoomID, "good", {0, p - 1})]

InitMovieNight == InitWith(DefaultMaxParticipants, MovieNightPlan)

SpecMovieNight == InitMovieNight /\ [][NextLive]_vars

----------------------------------------------------------------------------
(* Contention: one call (a join, an add or a remove) overlaps a run of six *)
(* joins that arrive one after the other, each of which rewrites the key.  *)

Contender == {1}
Writers == {2, 3, 4, 5, 6, 7}

ContenderCalls ==
    {JoinCall(1, RoomID, "good", {0}), Call("add", RoomID, 1, "", {0}),
     Call("remove", RoomID, HostUser, "", {0}), Call("remove", RoomID, 2, "", {0})}

ContentionPlan(c) ==
    [p \in {0} \cup Contender \cup Writers |->
        IF p = 0 THEN CreateCall
        ELSE IF p \in Contender THEN c
        ELSE IF p - 1 \in Contender THEN JoinCall(p, RoomID, "good", {0})
        ELSE JoinCall(p, RoomID, "good", {0, p - 1})]

InitContention ==
    \E c \in ContenderCalls : InitWith(DefaultMaxParticipants, ContentionPlan(c))

\* every request handler is a goroutine of its own and Redis answers every
\* command, so a request that can take a step eventually takes it
FairSpecContention == InitContention /\ [][NextLive]_vars /\ WF_vars(NextLive)

----------------------------------------------------------------------------
(* Add then remove: after the host created the room and two clients made   *)
(* any request each, one caller adds an id and then removes the same id,   *)
(* with nothing else running.                                              *)

Earlier == {1, 2}
Adder == {3}
Remover == {4}
SeqCaps == {2, 3}
SeqIds == {HostUser, 1, 2, 3}

SeqPlan(f, u) ==
    [p \in {0} \cup Earlier \cup Adder \cup Remover |->
        IF p = 0 THEN CreateCall
        ELSE IF p \in Earlier THEN f[p]
        ELSE IF p \in Adder THEN Call("add", RoomID, u, "", {0} \cup Earlier)
        ELSE Call("remove", RoomID, u, "", {0} \cup Earlier \cup Adder)]

InitSeq ==
    \E c \in SeqCaps : \E u \in SeqIds :
    \E f \in [Earlier -> UNION {ClientCalls(p, {0}) : p \in Earlier}] :
        /\ \A p \in Earlier : f[p] \in ClientCalls(p, {0})
        /\ InitWith(c, SeqPlan(f, u))

SpecSeq == InitSeq /\ [][NextLive]_vars

----------------------------------------------------------------------------
(* Properties of the session store *)

\* C1: in every reachable state, under any interleaving of add and remove
\* calls (and of the room's expiry), the stored roster has at most
\* MaxParticipants members.
C1_RosterWithinCapacity ==
    \A sid \in DOMAIN store :
        Len(store[sid].Participants) <= store[sid].MaxParticipants

\* a full room in which a concurrent add was refused
C1_Witness ==
    /\ RoomExists
    /\ Len(Roster) = store[RoomID].MaxParticipants
    /\ \E p \in Procs : AddLike(p) /\ pc[p] = "done" /\ attempt[p] > 0
                        /\ Cause(err[p]) = ErrFull

\* C2: two concurrent adds of different ids on a room with at least two
\* free slots both return success and the final roster holds both ids.
C2_BothAddsLand ==
    (RaceOver /\ cfgMax - PreloadedSize >= 2) =>
        \A p \in Racers : err[p] = NoErr /\ InSeq(plan[p].uid, Roster)

\* both racers are in, and one of them had to retry after a conflict
C2_Witness ==
    /\ RaceOver
    /\ cfgMax - PreloadedSize >= 2
    /\ \A p \in Racers : Succeeded(p) /\ InSeq(plan[p].uid, Roster)
    /\ \E p \in Racers : attempt[p] = 1

\* C3: two joiners with different ids racing on a roster of capacity-1
\* members: exactly one succeeds, the other is refused because the room is
\* full, and the roster ends with exactly capacity members.
C3_OneWinsOneFull ==
    (RaceOver /\ PreloadedSize = cfgMax - 1) =>
        /\ \E p \in Racers : \E q \in Racers \ {p} :
              /\ err[p] = NoErr /\ InSeq(plan[p].uid, Roster)
              /\ Cause(err[q]) = ErrFull /\ ~InSeq(plan[q].uid, Roster)
        /\ Len(Roster) = cfgMax

\* the loser passed its own checks first and was refused inside the
\* transaction, on its second attempt
C3_Witness ==
    /\ RaceOver
    /\ PreloadedSize = cfgMax - 1
    /\ \E q \in Racers : Cause(err[q]) = ErrFull /\ attempt[q] = 1
    /\ Len(Roster) = cfgMax

\* C4 as stated: with nine viewers joining a room of capacity 10
\* concurrently, every one of the nine joins succeeds, the roster settles at
\* 10, and the tenth viewer is told the room is full.
C4_AllNineJoin ==
    AllDone =>
        /\ \A v \in Viewers : err[v] = NoErr
        /\ Len(Roster) = DefaultMaxParticipants
        /\ \A t \in LastViewers : err[t] = ErrFull

\* C4 amended: each of the nine joins either succeeds and is in the roster,
\* or has met maxRetries conflicts and returns the after-retries error
\* without being in the roster; the roster is the host plus the successful
\* joiners; the tenth viewer is told the room is full exactly when all nine
\* succeeded, and joins otherwise.
C4_JoinsLandOrContend ==
    AllDone =>
        /\ \A v \in Viewers :
              \/ err[v] = NoErr /\ InSeq(v, Roster)
              \/ /\ err[v] = Wrap("failed to add participant", ErrAddRetries)
                 /\ attempt[v] = maxRetries
                 /\ ~InSeq(v, Roster)
        /\ Len(Roster) =
              1 + Cardinality({v \in Viewers \cup LastViewers : err[v] = NoErr})
        /\ Len(Roster) <= DefaultMaxParticipants
        /\ \A t \in LastViewers :
              IF \A v \in Viewers : err[v] = NoErr
              THEN err[t] = ErrFull /\ status[t] = 403
              ELSE err[t] = NoErr

\* all nine joined, one of them after retrying, and the tenth was refused
C4_Witness ==
    /\ AllDone
    /\ \A v \in Viewers : err[v] = NoErr
    /\ \E v \in Viewers : attempt[v] >= 2
    /\ Len(Roster) = DefaultMaxParticipants
    /\ \A t \in LastViewers : status[t] = 403

\* a call never makes more than maxRetries attempts, and returns the
\* after-retries error only after exactly maxRetries conflicts
C5_AttemptsBounded ==
    \A p \in Procs :
        /\ attempt[p] <= maxRetries
        /\ pc[p] # "done" => attempt[p] < maxRetries
        /\ (pc[p] = "done" /\ IsRetriesError(err[p])) =>
              /\ attempt[p] = maxRetries
              /\ err[p] = TopErr(plan[p].op, RetriesError(plan[p].op))

\* a call that writes the key returns nil in that step: a call that ends in
\* the after-retries error has written nothing
C5_WriteMeansSuccess ==
    \A p \in Procs :
        (pc[p] # "done" /\ pc'[p] = "done") =>
            IF store' # store THEN err'[p] = NoErr ELSE TRUE

\* C5: an add or remove call that meets conflicts retries at most
\* maxRetries (5) times; when every attempt conflicts it returns the
\* after-retries error having changed nothing; every call returns.
C5_BoundedRetry ==
    /\ [](C5_AttemptsBounded)
    /\ [][C5_WriteMeansSuccess /\
          (\A p \in Procs : (pc[p] # "done" /\ pc'[p] = "done"
                             /\ IsRetriesError(err'[p])) => store' = store)]_vars
    /\ <>AllDone

\* a remove gave up after maxRetries conflicts and the id it was to remove
\* is still in the roster
C5_Witness ==
    /\ AllDone
    /\ \E p \in Contender : IsRetriesError(err[p]) /\ plan[p].op = "remove"
                            /\ InSeq(plan[p].uid, Roster)

\* C6 as stated: add(id) followed by remove(id) restores the roster as it
\* was before the add.
C6_AddRemoveRestores ==
    AllDone => \A a \in Adder : Roster = RosterRead(a)

\* C6 amended: add(id) followed by remove(id) restores the exact prior
\* roster when id was not in the roster before the add.
C6_AddRemoveRestoresIfAbsent ==
    AllDone =>
        \A a \in Adder :
            ~InSeq(plan[a].uid, RosterRead(a)) => Roster = RosterRead(a)

\* the add really appended to a roster of two and the remove took it out
C6_Witness ==
    /\ AllDone
    /\ \A a \in Adder : /\ err[a] = NoErr
                        /\ Len(RosterRead(a)) = 2
                        /\ ~InSeq(plan[a].uid, RosterRead(a))
                        /\ ~IsFull(snap[a][1])
                        /\ Roster = RosterRead(a)

\* C7: an add of an id that is already in the roster returns nil and writes
\* nothing, also when the room is at capacity.
C7_AddPresentIsNoOp ==
    [][\A p \in Procs :
        (/\ pc[p] = "txget" /\ pc'[p] # "txget"
         /\ AddLike(p)
         /\ plan[p].sid \in DOMAIN store
         /\ InSeq(plan[p].uid, store[plan[p].sid].Participants))
        => /\ pc'[p] = "done"
           /\ err'[p] = NoErr
           /\ store' = store
           /\ \A q \in Procs \ {p} : watch'[q] = watch[q]]_vars

\* an add of a present id returned nil on a full room
C7_Witness ==
    \E p \in Procs :
        /\ plan[p].op = "add" /\ Succeeded(p)
        /\ snap[p] # <<>>
        /\ InSeq(plan[p].uid, RosterRead(p))
        /\ IsFull(snap[p][1])
        /\ RoomExists /\ Roster = RosterRead(p)

\* C8: a remove of an id that is not in the roster, or from a room that no
\* longer exists, returns nil and writes nothing: no SET is sent, so no
\* record is created and no watcher is disturbed.
C8_RemoveAbsentIsNoOp ==
    [][\A p \in Procs :
        (/\ pc[p] = "txget" /\ pc'[p] # "txget"
         /\ plan[p].op = "remove"
         /\ \/ plan[p].sid \notin DOMAIN store
            \/ ~InSeq(plan[p].uid, store[plan[p].sid].Participants))
        => /\ pc'[p] = "done"
           /\ err'[p] = NoErr
           /\ store' = store
           /\ \A q \in Procs \ {p} : watch'[q] = watch[q]]_vars

\* a remove found the room gone, returned nil, and the room is still gone
C8_Witness ==
    \E p \in Procs :
        /\ plan[p].op = "remove" /\ Succeeded(p)
        /\ attempt[p] = 0
        /\ snap[p] = <<>>
        /\ ~RoomExists

\* C9: once the room is created the host is in its roster, whatever adds
\* and removes are made.
C9_HostInRoster ==
    \A sid \in DOMAIN store : InSeq(store[sid].HostID, store[sid].Participants)

\* C10: every failed join is reported with its own reason: 403 when the
\* room is full, 401 when the password does not verify, 404 when the room
\* is absent, also when the room fills or expires between the check of
\* JoinSession and the transaction of AddParticipant.
C10_FailedJoinHasItsStatus ==
    \A p \in Procs :
        (plan[p].op = "join" /\ pc[p] = "done") =>
            /\ Cause(err[p]) = ErrFull => status[p] = 403
            /\ Cause(err[p]) = ErrInvalidPassword => status[p] = 401
            /\ Cause(err[p]) = ErrNotFound => status[p] = 404

----------------------------------------------------------------------------
(* The WebSocket hub: transport connections grouped by room, the four      *)
(* channels of the Hub and its Run loop, and the pumps of every Client.    *)
(*                                                                         *)
(* The Hub is one goroutine: everything it does for one request it takes   *)
(* from a channel is one step.  A send on an unbuffered channel (register, *)
(* unregister) and its receive by the Hub are one step as well: the sender *)
(* waits at the send until the Hub takes the client.                       *)

(* Bounds of the hub model *)

\* number of transport connections opened during a run
NumConns == 3

\* capacity of a buffered channel (make(chan ..., 256) in NewClient and in
\* NewHub), scaled down so that a full channel is within reach
QueueCap == 2

\* number of frames the clients send during a run, all connections together
MaxFrames == 1

(* Program constants *)

MessageTypeChat == "chat"
MessageTypeWebRTCOffer == "webrtc_offer"
MessageTypeWebRTCAnswer == "webrtc_answer"
MessageTypeICECandidate == "ice_candidate"
MessageTypePlaybackState == "playback_state"
MessageTypePlaybackControl == "playback_control"
MessageTypeUserJoined == "user_joined"
MessageTypeUserLeft == "user_left"

\* bytes json.Unmarshal fails on
NotJSON == "<not json>"

\* the empty string as target_id, TargetID or ExcludeID
NoID == -1

SecondRoom == "s2"

Conns == DOMAIN client

\* Client.ID: uuid.New(), an id no user and no other connection has
NewID(c) == 100 + c

\* NewClient(conn, hub, sessionID, userID, username, isHost)
NewClient(c, sid, uid, isHost) ==
    [ID |-> NewID(c), SessionID |-> sid, UserID |-> uid, IsHost |-> isHost]

\* the bytes of the n-th frame read from connection c.  conn and seq stand
\* for the payload and the timestamp, which the server never looks at and
\* which make the frames of two sends different
ClientFrame(type, target, c, n) ==
    [type |-> type, target_id |-> target, hub |-> FALSE, conn |-> c, seq |-> n]

\* the bytes notifyUserJoined and notifyUserLeft marshal for client c: type,
\* user_id and username of c, session id, timestamp
PresenceFrame(type, c) ==
    [type |-> type, target_id |-> NoID, hub |-> TRUE, conn |-> c, seq |-> 0]

BroadcastMessage(sid, m, exclude) ==
    [SessionID |-> sid, Message |-> m, ExcludeID |-> exclude]

DirectMessage(sid, target, m) ==
    [SessionID |-> sid, TargetID |-> target, Message |-> m]

\* select { case ch <- m: default: } on a channel holding q
TrySendMutant(q, m) == IF Len(q) < QueueCap THEN <<m>> \o q ELSE q

TrySendEvictMutant(q, m) ==
    IF Len(q) < QueueCap THEN Append(q, m) ELSE Append(Tail(q), m)

TrySend(q, m) == IF Len(q) < QueueCap THEN Append(q, m) ELSE q

\* the same for every message of ms in turn
RECURSIVE TrySendAllMutant(_, _)
TrySendAllMutant(q, ms) ==
    IF ms = <<>> THEN q
    ELSE TrySend(TrySendAllMutant(q, Tail(ms)), Head(ms))

RECURSIVE TrySendAll(_, _)
TrySendAll(q, ms) ==
    IF ms = <<>> THEN q ELSE TrySendAll(TrySend(q, Head(ms)), Tail(ms))

\* a loop over the clients of D, each getting one non-blocking send of m
Deliver(D, m) ==
    [d \in Conns |-> IF d \in D THEN TrySend(Send[d], m) ELSE Send[d]]

\* the clients registered in room sid, {} if h.sessions has no such key
SessionClients(sid) == IF sid \in DOMAIN sessions THEN sessions[sid] ELSE {}

\* RedisService.GetChatHistory: LRANGE chat:<sid> 0 -1.  The list is written
\* by RedisService.SaveChatMessage alone, which Hub.SaveMessage alone calls,
\* which nothing calls
GetChatHistory(sid) == IF sid \in DOMAIN chat THEN chat[sid] ELSE <<>>

\* the clients broadcastToSession sends msg to
RecipientsMutant(msg) == SessionClients(msg.SessionID)

RecipientsEverMutant(msg) ==
    {d \in Conns :
        /\ client[d].SessionID = msg.SessionID
        /\ ~(msg.ExcludeID # NoID /\ client[d].ID = msg.ExcludeID)}

Recipients(msg) ==
    {d \in SessionClients(msg.SessionID) :
        ~(msg.ExcludeID # NoID /\ client[d].ID = msg.ExcludeID)}

\* the clients the loop of sendToClient may stop at
TargetsMutant(msg) == SessionClients(msg.SessionID)

TargetsAnywhereMutant(msg) ==
    {d \in UNION {sessions[s] : s \in DOMAIN sessions} :
        client[d].UserID = msg.TargetID \/ client[d].ID = msg.TargetID}

Targets(msg) ==
    {d \in SessionClients(msg.SessionID) :
        client[d].UserID = msg.TargetID \/ client[d].ID = msg.TargetID}

SignalTypes ==
    {MessageTypeWebRTCOffer, MessageTypeWebRTCAnswer, MessageTypeICECandidate}

\* Client.handleMessage: the request the frame f of client c becomes,
\* to = "none" when the frame is dropped
RouteMutant(c, f) ==
    [to |-> "broadcast",
     msg |-> BroadcastMessage(client[c].SessionID, f, client[c].ID)]

Route(c, f) ==
    IF f.type = NotJSON THEN [to |-> "none"]
    ELSE IF f.type \in SignalTypes
    THEN IF f.target_id # NoID
         THEN [to |-> "direct",
               msg |-> DirectMessage(client[c].SessionID, f.target_id, f)]
         ELSE [to |-> "broadcast",
               msg |-> BroadcastMessage(client[c].SessionID, f, client[c].ID)]
    ELSE IF f.type = MessageTypeChat
    THEN [to |-> "broadcast",
          msg |-> BroadcastMessage(client[c].SessionID, f, NoID)]
    ELSE IF f.type = MessageTypePlaybackState
    THEN IF client[c].IsHost
         THEN [to |-> "broadcast",
               msg |-> BroadcastMessage(client[c].SessionID, f, client[c].ID)]
         ELSE [to |-> "none"]
    ELSE [to |-> "broadcast",
          msg |-> BroadcastMessage(client[c].SessionID, f, client[c].ID)]

FramesRead == LET RECURSIVE Sum(_)
                  Sum(S) == IF S = {} THEN 0
                            ELSE LET x == CHOOSE y \in S : TRUE
                                 IN nread[x] + Sum(S \ {x})
              IN Sum(Conns)

\* what a client may put in a frame
FrameTypes ==
    SignalTypes \cup
    {MessageTypeChat, MessageTypePlaybackState, MessageTypePlaybackControl,
     MessageTypeUserJoined, MessageTypeUserLeft, NotJSON}

\* the target_id of a frame: none, a participant id or, for signaling, the id
\* of a connection
TargetIDs(type) ==
    IF type \in SignalTypes THEN {NoID, HostUser, 1, 2, NewID(2)} ELSE {NoID}

(* Actions of the hub *)

\* HandleWebSocket has started ReadPump for c, after Register returned, and
\* ReadPump has not left its loop
ReadPumpRunsMutant(c) == cpc[c] # "gone"

ReadPumpRunsAgainMutant(c) == cpc[c] # "new"

ReadPumpRuns(c) == cpc[c] = "open"

\* no pump has closed the Conn of c: WritePump closes it when it returns,
\* ReadPump when it has left its loop
ConnOpen(c) == wpump[c] = "run" /\ cpc[c] # "gone"

\* Hub.Run takes a client from h.register: registerClient
HubRegister(c) ==
    /\ cpc[c] = "new"
    /\ LET sid == client[c].SessionID
           members == SessionClients(sid) \cup {c}
           replayed == [Send EXCEPT ![c] = TrySendAll(@, GetChatHistory(sid))]
       IN /\ sessions' = [s \in DOMAIN sessions \cup {sid} |->
                            IF s = sid THEN members ELSE sessions[s]]
          /\ Send' = [d \in Conns |->
                        IF d \in members \ {c}
                        THEN TrySend(replayed[d],
                                     PresenceFrame(MessageTypeUserJoined, c))
                        ELSE replayed[d]]
    /\ cpc' = [cpc EXCEPT ![c] = "open"]
    /\ UNCHANGED <<client, nread, broadcast, direct, chat, wpump, unregs>>
    /\ UNCHANGED outsideHub

\* ReadPump reads one frame: handleMessage, up to the send on the channel
HandleMessage(c, type, target) ==
    /\ ReadPumpRuns(c)
    /\ ConnOpen(c)
    /\ FramesRead < MaxFrames
    /\ LET f == ClientFrame(type, target, c, nread[c] + 1)
           r == Route(c, f)
       IN IF r.to = "broadcast"
          THEN /\ Len(broadcast) < QueueCap
               /\ broadcast' = Append(broadcast, r.msg)
               /\ UNCHANGED direct
          ELSE IF r.to = "direct"
          THEN /\ Len(direct) < QueueCap
               /\ direct' = Append(direct, r.msg)
               /\ UNCHANGED broadcast
          ELSE UNCHANGED <<broadcast, direct>>
    /\ nread' = [nread EXCEPT ![c] = @ + 1]
    /\ UNCHANGED <<client, cpc, sessions, Send, chat, wpump, unregs>>
    /\ UNCHANGED outsideHub

\* the keys of h.sessions when client c has been deleted from room sid and
\* rest are the clients the room still has: "Remove session if empty"
RoomsAfterMutant(sid, rest) == DOMAIN sessions

RoomsAfter(sid, rest) ==
    IF rest = {} THEN DOMAIN sessions \ {sid} ELSE DOMAIN sessions

\* unregisterClient(c), with what close(client.Send) does to the pumps of c
unregisterClient(c) ==
    /\ LET sid == client[c].SessionID
           rest == SessionClients(sid) \ {c}
       IN IF c \in SessionClients(sid)
          THEN /\ sessions' = [s \in RoomsAfter(sid, rest) |->
                                 IF s = sid THEN rest ELSE sessions[s]]
               /\ Send' = [Deliver(rest, PresenceFrame(MessageTypeUserLeft, c))
                            EXCEPT ![c] = <<>>]
          ELSE UNCHANGED <<sessions, Send>>
    /\ cpc' = [cpc EXCEPT ![c] = "gone"]
    /\ wpump' = [wpump EXCEPT ![c] = IF @ = "run" THEN "done" ELSE @]
    /\ unregs' = [unregs EXCEPT ![c] = @ + 1]
    /\ UNCHANGED <<client, nread, broadcast, direct, chat>>

\* ReadMessage fails (the peer is gone, the read deadline has passed or
\* WritePump has closed the Conn), ReadPump leaves its loop and its deferred
\* function sends the client on h.unregister; Hub.Run takes it:
\* unregisterClient.  close(client.Send) and the Conn.Close() of ReadPump end
\* the channel: what it still held is not written to any peer, and a
\* WritePump that still runs finds Send closed and returns
HubUnregister(c) ==
    /\ ReadPumpRuns(c)
    /\ unregisterClient(c)
    /\ UNCHANGED outsideHub

\* Hub.Run takes a message from h.broadcast: broadcastToSession
HubBroadcast ==
    /\ broadcast # <<>>
    /\ Send' = Deliver(Recipients(Head(broadcast)), Head(broadcast).Message)
    /\ broadcast' = Tail(broadcast)
    /\ UNCHANGED <<client, cpc, nread, sessions, direct, chat, wpump, unregs>>
    /\ UNCHANGED outsideHub

\* Hub.Run takes a message from h.direct: sendToClient.  The loop ranges over
\* a map, so it may come to any matching client first, and returns there
HubDirect ==
    /\ direct # <<>>
    /\ LET msg == Head(direct) IN
        IF Targets(msg) = {} THEN UNCHANGED Send
        ELSE \E d \in Targets(msg) : Send' = Deliver({d}, msg.Message)
    /\ direct' = Tail(direct)
    /\ UNCHANGED <<client, cpc, nread, sessions, broadcast, chat, wpump, unregs>>
    /\ UNCHANGED outsideHub

\* WritePump takes the next message from c.Send and writes it to the socket
WritePump(c) ==
    /\ cpc[c] = "open"
    /\ wpump[c] = "run"
    /\ Send[c] # <<>>
    /\ Send' = [Send EXCEPT ![c] = Tail(@)]
    /\ UNCHANGED <<client, cpc, nread, sessions, broadcast, direct, chat,
                   wpump, unregs>>
    /\ UNCHANGED outsideHub

\* a write or a ping of WritePump fails (the write deadline has passed):
\* WritePump returns, its deferred function closes the Conn; it does not call
\* Hub.Unregister.  The Send channel stays open until ReadPump, whose read
\* fails on the closed Conn, has had the hub unregister the client
WriteFail(c) ==
    /\ cpc[c] = "open"
    /\ wpump[c] = "run"
    /\ wpump' = [wpump EXCEPT ![c] = "failed"]
    /\ UNCHANGED <<client, cpc, nread, sessions, Send, broadcast, direct, chat,
                   unregs>>
    /\ UNCHANGED outsideHub

\* a server no HTTP request is made to
NoRequests == Requests(DefaultMaxParticipants, << >>)

\* who opens connection c: the host of the room opens the first, a viewer of
\* the room the second, viewers of either room the others
ClientChoices(c) ==
    IF c = 1 THEN {NewClient(c, RoomID, HostUser, TRUE)}
    ELSE IF c = 2 THEN {NewClient(c, RoomID, 1, FALSE)}
    ELSE {NewClient(c, sid, uid, FALSE) : sid \in {RoomID, SecondRoom}, uid \in {1, 2}}

\* the connections cl, each with its HandleWebSocket at hub.Register
Connections(cl) ==
    /\ client = cl
    /\ cpc = [c \in DOMAIN cl |-> "new"]
    /\ nread = [c \in DOMAIN cl |-> 0]
    /\ sessions = << >>
    /\ Send = [c \in DOMAIN cl |-> <<>>]
    /\ broadcast = <<>>
    /\ direct = <<>>
    /\ chat = << >>
    /\ wpump = [c \in DOMAIN cl |-> "run"]
    /\ unregs = [c \in DOMAIN cl |-> 0]

InitHubWith(cl) ==
    /\ NoRequests
    /\ NoCalls
    /\ NoPages
    /\ NoTracks
    /\ NoSaves
    /\ Connections(cl)

InitHub ==
    \E cl \in [1..NumConns -> UNION {ClientChoices(c) : c \in 1..NumConns}] :
        /\ \A c \in 1..NumConns : cl[c] \in ClientChoices(c)
        /\ InitHubWith(cl)

NextHub ==
    \/ \E c \in Conns : HubRegister(c)
    \/ \E c \in Conns : \E type \in FrameTypes : \E target \in TargetIDs(type) :
            HandleMessage(c, type, target)
    \/ \E c \in Conns : HubUnregister(c)
    \/ HubBroadcast
    \/ HubDirect
    \/ \E c \in Conns : WritePump(c)

SpecHub == InitHub /\ [][NextHub]_vars

\* the hub with sockets whose writes can fail
NextTeardown ==
    \/ \E c \in Conns : HubRegister(c)
    \/ \E c \in Conns : \E type \in FrameTypes : \E target \in TargetIDs(type) :
            HandleMessage(c, type, target)
    \/ \E c \in Conns : HubUnregister(c)
    \/ HubBroadcast
    \/ HubDirect
    \/ \E c \in Conns : WritePump(c)
    \/ \E c \in Conns : WriteFail(c)

SpecTeardown == InitHub /\ [][NextTeardown]_vars

----------------------------------------------------------------------------
(* Observations of the hub used by the properties *)

\* this step is Hub.Run handling the oldest message of h.broadcast
BroadcastStep == broadcast # <<>> /\ broadcast' = Tail(broadcast)

\* this step is Hub.Run handling the oldest message of h.direct
DirectStep == direct # <<>> /\ direct' = Tail(direct)

\* the messages this step has put on the Send channel of d, oldest first
Enqueued(d) ==
    IF Len(Send'[d]) > Len(Send[d])
    THEN SubSeq(Send'[d], Len(Send[d]) + 1, Len(Send'[d]))
    ELSE <<>>

\* connection d is the one msg.ExcludeID names
IsExcluded(d, msg) == msg.ExcludeID # NoID /\ client[d].ID = msg.ExcludeID

\* the frame f came from a client and its sender was to be left out
SentExcludingSender(f) ==
    /\ ~f.hub
    /\ Route(f.conn, f).to = "broadcast"
    /\ Route(f.conn, f).msg.ExcludeID = client[f.conn].ID

Full(d) == Len(Send[d]) = QueueCap

----------------------------------------------------------------------------
(* C11: when the hub handles a broadcast that names a connection to leave  *)
(* out, the Send channel of that connection is left exactly as it was,     *)
(* whatever the room table holds.                                          *)
C11_ExcludedGetsNothing ==
    [][BroadcastStep =>
        \A d \in Conns :
            IsExcluded(d, Head(broadcast)) => Send'[d] = Send[d]]_vars

\* a frame sent excluding its sender lies in the queue of another member of
\* the room while the sender, still registered there, does not hold it
C11_Witness ==
    \E d \in Conns : \E i \in DOMAIN Send[d] :
        /\ SentExcludingSender(Send[d][i])
        /\ Send[d][i].conn \in SessionClients(client[d].SessionID)
        /\ Send[d][i].conn # d
        /\ ~InSeq(Send[d][i], Send[Send[d][i].conn])

----------------------------------------------------------------------------
(* C12: when the hub handles a broadcast, a member of the room that is not *)
(* left out and whose Send channel is full keeps the channel as it is (the *)
(* message is dropped for it), every other such member gets the message    *)
(* appended once, no other channel changes; and a waiting broadcast can    *)
(* always be handled, full channels or not.                                *)
C12_DropOnFullOnly ==
    /\ [][BroadcastStep =>
            LET msg == Head(broadcast) IN
            \A d \in Conns :
                IF d \in SessionClients(msg.SessionID) /\ ~IsExcluded(d, msg)
                   /\ ~Full(d)
                THEN Send'[d] = Append(Send[d], msg.Message)
                ELSE Send'[d] = Send[d]]_vars
    /\ [](broadcast # <<>> => ENABLED HubBroadcast)

\* the Send channel of d has been full of the user_joined notices it got
\* first, the one for a at its head, and a holds a chat frame that was
\* broadcast to the room of both after a joined: d has lost that frame
C12_Witness ==
    \E d \in Conns : \E a \in Conns \ {d} :
        /\ cpc[d] = "open"
        /\ Full(d)
        /\ Send[d][1] = PresenceFrame(MessageTypeUserJoined, a)
        /\ \A i \in DOMAIN Send[d] : Send[d][i].hub
        /\ \E i \in DOMAIN Send[a] :
            /\ Send[a][i].type = MessageTypeChat
            /\ ~Send[a][i].hub

----------------------------------------------------------------------------
\* the chat frames the hub has broadcast in room sid and that a member of
\* the room still holds in its Send channel
ChatBroadcast(sid) ==
    {f \in UNION {{Send[d][i] : i \in DOMAIN Send[d]} : d \in SessionClients(sid)} :
        f.type = MessageTypeChat /\ ~f.hub}

\* this step is Hub.Run registering connection c
RegisterStep(c) == cpc[c] = "new" /\ cpc'[c] = "open"

(* C13: a connection that registers after chat frames were broadcast in    *)
(* its room has every one of them in its own Send channel when the         *)
(* registration is over, so it gets them before anything broadcast later.  *)
C13_JoinerGetsEarlierChat ==
    [][\A c \in Conns :
        RegisterStep(c) =>
            \A f \in ChatBroadcast(client[c].SessionID) : InSeq(f, Send'[c])]_vars

(* C14: when a viewer registers after the host's chat frame was broadcast  *)
(* in the room, that frame is in the room's backlog, the list the          *)
(* registration replays to the viewer.                                     *)
C14_HostChatIsInBacklog ==
    [][\A c \in Conns :
        RegisterStep(c) /\ ~client[c].IsHost =>
            \A f \in ChatBroadcast(client[c].SessionID) :
                client[f.conn].IsHost =>
                    InSeq(f, GetChatHistory(client[c].SessionID))]_vars

----------------------------------------------------------------------------
----------------------------------------------------------------------------
\* the frames lying in the Send channel of some connection
FramesQueued == UNION {{Send[d][i] : i \in DOMAIN Send[d]} : d \in Conns}

\* the message kinds that steer the shared playback
PlaybackTypes == {MessageTypePlaybackState, MessageTypePlaybackControl}

(* C16: no connection ever has in its Send channel a playback frame that   *)
(* was sent by a connection which is not the host's.                       *)
C16_ViewerPlaybackIsDropped ==
    \A f \in FramesQueued :
        ~f.hub /\ f.type \in PlaybackTypes => client[f.conn].IsHost

(* C17: every user_joined or user_left frame in a Send channel was built   *)
(* by the hub, none was sent by a client.                                  *)
C17_PresenceFramesAreTheHubs ==
    \A f \in FramesQueued :
        f.type \in {MessageTypeUserJoined, MessageTypeUserLeft} => f.hub

----------------------------------------------------------------------------
\* t is the id of a connection, not of a participant
IsConnectionID(t) == \E c \in Conns : client[c].ID = t

\* the connections of participant uid registered in room sid
ConnectionsOf(uid, sid) == {d \in SessionClients(sid) : client[d].UserID = uid}

(* C18: a signaling frame that names a participant as its target is        *)
(* handled as a direct message of the sender's room: at most one Send      *)
(* channel changes, that of                                                *)
(* a connection of the target in that room, by getting the frame appended, *)
(* and none changes (the sender's neither) when the target has no          *)
(* connection there.  A signaling frame without target is handled as a     *)
(* broadcast of the sender's room that changes the Send channels of the    *)
(* other members only.                                                     *)
C18_SignalingGoesToTargetOnly ==
    /\ [][DirectStep /\ ~IsConnectionID(Head(direct).TargetID) =>
            LET msg == Head(direct)
                f == msg.Message
                T == ConnectionsOf(f.target_id, client[f.conn].SessionID)
            IN /\ f.type \in SignalTypes /\ f.target_id # NoID
               /\ \/ Send' = Send
                  \/ \E t \in T : Send' = [Send EXCEPT ![t] = Append(@, f)]]_vars
    /\ [][BroadcastStep /\ Head(broadcast).Message.type \in SignalTypes =>
            LET f == Head(broadcast).Message
                others == SessionClients(client[f.conn].SessionID) \ {f.conn}
            IN /\ f.target_id = NoID
               /\ \A d \in Conns :
                    IF d \in others /\ ~Full(d)
                    THEN Send'[d] = Append(Send[d], f)
                    ELSE Send'[d] = Send[d]]_vars

\* a signaling frame for a participant with two connections in the room
\* lies in the Send channel of one of them, behind the notice that the other
\* has joined, and not in that of the other nor in that of the sender
C18_Witness ==
    \E d \in Conns : \E e \in Conns \ {d} : \E i \in DOMAIN Send[d] :
        LET f == Send[d][i] IN
        /\ ~f.hub /\ f.type \in SignalTypes /\ f.target_id # NoID
        /\ {d, e} \subseteq ConnectionsOf(f.target_id, client[f.conn].SessionID)
        /\ \E j \in 1..(i - 1) : Send[d][j] = PresenceFrame(MessageTypeUserJoined, e)
        /\ f.conn \in SessionClients(client[f.conn].SessionID)
        /\ Send[e] = <<>>
        /\ ~InSeq(f, Send[f.conn])

----------------------------------------------------------------------------
\* the requests waiting in the channels of the hub that connection c made
WaitingOf(c) ==
    {i \in DOMAIN broadcast : broadcast[i].Message.conn = c}
    \cup {-i : i \in {j \in DOMAIN direct : direct[j].Message.conn = c}}

\* this step is Hub.Run unregistering connection c
UnregisterStep(c) == cpc[c] = "open" /\ cpc'[c] = "gone"

\* connection c made a request that waits in channel q and is older than
\* its request msg
OlderWaits(q, msg) ==
    \E i \in DOMAIN q :
        /\ q[i].Message.conn = msg.Message.conn
        /\ q[i].Message.seq < msg.Message.seq

(* C19: the hub takes the requests of a connection in the order the        *)
(* connection made them, whatever their kinds: it unregisters a connection *)
(* only when no broadcast and no direct message of that connection is      *)
(* still waiting, and it handles a broadcast (a direct message) of a       *)
(* connection only when no older direct message (broadcast) of that        *)
(* connection is still waiting.                                            *)
C19_HandledInSubmissionOrder ==
    [][/\ \A c \in Conns : UnregisterStep(c) => WaitingOf(c) = {}
       /\ BroadcastStep => ~OlderWaits(direct, Head(broadcast))
       /\ DirectStep => ~OlderWaits(broadcast, Head(direct))]_vars

----------------------------------------------------------------------------
UserJoined(c) == PresenceFrame(MessageTypeUserJoined, c)

UserLeft(c) == PresenceFrame(MessageTypeUserLeft, c)

(* C20: the hub puts the UserJoined of a connection on the Send channel of *)
(* an observer only in the step that registers the connection, and its     *)
(* UserLeft only in the step that unregisters it, which comes later; and   *)
(* the Send channel is first in, first out.  So an observer that gets both *)
(* events of one connection gets UserJoined first.                         *)
C20_JoinedBeforeLeft ==
    [][\A c \in Conns : \A d \in Conns :
        /\ InSeq(UserJoined(c), Enqueued(d)) => RegisterStep(c)
        /\ InSeq(UserLeft(c), Enqueued(d)) => UnregisterStep(c)
        /\ cpc[c] # "new" => cpc'[c] # "new"
        /\ \A i \in DOMAIN Send'[d] : \A j \in DOMAIN Send'[d] :
            Send'[d][i] = UserJoined(c) /\ Send'[d][j] = UserLeft(c) => i < j
        /\ Len(Send'[d]) < Len(Send[d]) => Send'[d] \in {Tail(Send[d]), <<>>}]_vars

\* an observer has both events of one connection in its Send channel
C20_Witness ==
    \E c \in Conns : \E d \in Conns \ {c} :
        /\ cpc[d] = "open"
        /\ InSeq(UserJoined(c), Send[d])
        /\ InSeq(UserLeft(c), Send[d])

----------------------------------------------------------------------------
\* the frames connection c sent that wait on the Send channel of d
FramesFrom(c, d) ==
    {i \in DOMAIN Send[d] : Send[d][i].conn = c /\ ~Send[d][i].hub}

(* C21: as long as the hub has not registered a connection, that is, has   *)
(* not yet put the chat backlog on its Send channel, no frame this         *)
(* connection sent is on the Send channel of any other connection.         *)
C21_ReplayBeforeOwnBroadcasts ==
    \A c \in Conns : cpc[c] = "new" =>
        \A d \in Conns \ {c} : FramesFrom(c, d) = {}

\* a frame of a registered connection waits on the Send channel of another
\* connection of its room
C21_Witness ==
    \E c \in Conns : \E d \in Conns \ {c} :
        /\ cpc[c] = "open"
        /\ cpc[d] = "open"
        /\ FramesFrom(c, d) # {}

----------------------------------------------------------------------------
\* the rooms of Hub.sessions that hold connection c
RoomsOf(c) == {s \in DOMAIN sessions : c \in sessions[s]}

(* C22: whether the peer closes, WritePump fails, or both, Hub.Unregister  *)
(* is called once for a connection.  The step that handles the call takes  *)
(* the connection out of its room, closes its Send channel and puts one    *)
(* UserLeft on the Send channel of every other member that has room for    *)
(* it; no other step puts a UserLeft of it anywhere, and the connection    *)
(* is never unregistered again nor put back in a room.                     *)
C22_UnregisteredOnce ==
    [][\A c \in Conns :
        /\ unregs'[c] <= 1
        /\ unregs'[c] # unregs[c] <=> UnregisterStep(c)
        /\ UnregisterStep(c) =>
            /\ RoomsOf(c) = {client[c].SessionID}
            /\ Send'[c] = <<>>
            /\ \A d \in SessionClients(client[c].SessionID) \ {c} :
                IF Full(d) THEN Send'[d] = Send[d]
                ELSE Send'[d] = Append(Send[d], UserLeft(c))
        /\ \A d \in Conns : InSeq(UserLeft(c), Enqueued(d)) => UnregisterStep(c)
        /\ cpc[c] = "gone" => cpc'[c] = "gone"
        /\ cpc'[c] = "gone" => \A s \in DOMAIN sessions' : c \notin sessions'[s]]_vars

\* the WritePump of a connection has failed and closed the Conn, the read
\* of ReadPump has failed on it, the hub has unregistered the connection and
\* another member of the room holds its UserLeft
C22_Witness ==
    \E c \in Conns : \E d \in Conns \ {c} :
        /\ wpump[c] = "failed"
        /\ cpc[c] = "gone"
        /\ unregs[c] = 1
        /\ InSeq(UserLeft(c), Send[d])

----------------------------------------------------------------------------
(* C23: the step in which ReadPump reads a frame that is not JSON ends     *)
(* with ReadPump out of its loop, on the way to Hub.Unregister.            *)
C23_MalformedFrameTearsDown ==
    [][\A c \in Conns :
        HandleMessage(c, NotJSON, NoID) => cpc'[c] # "open"]_vars

----------------------------------------------------------------------------
(***************************************************************************)
(* The rate limiter of the middleware: one fixed window per key.  Allow    *)
(* holds RateLimiter.mu from its first to its last statement, so a call is *)
(* one step and concurrent calls are steps in some order, any number of    *)
(* them at one reading of the clock.                                       *)
(***************************************************************************)

(* Bounds of the rate limiter *)

\* number of keys (client addresses) that make requests
NumKeys == 2

\* largest RateLimiter.limit (smallest is 1)
MaxLimit == 2

\* RateLimiter.window in ticks of the clock (an hour or a minute in the code)
Window == 2

\* last reading of the clock
MaxTime == 5

\* number of calls of Allow in a run
MaxCalls == 5

Keys == 1..NumKeys

\* &rateLimitEntry{count, resetTime}
rateLimitEntry(count, resetTime) == [count |-> count, resetTime |-> resetTime]

\* now.After(entry.resetTime)
After(t, u) == t > u

\* entry.count >= rl.limit
LimitReachedMutant(entry) == entry.count > limit

LimitReached(entry) == entry.count >= limit

\* the three values Allow returns
Returned(allowed, remaining, resetTime) ==
    [allowed |-> allowed, remaining |-> remaining, resetTime |-> resetTime,
     at |-> now]

\* requests[key] = entry
Store(key, entry) ==
    [k \in DOMAIN requests \cup {key} |-> IF k = key THEN entry ELSE requests[k]]

CallsMade ==
    LET RECURSIVE Sum(_)
        Sum(S) == IF S = {} THEN 0
                  ELSE LET k == CHOOSE x \in S : TRUE
                       IN Len(returns[k]) + Sum(S \ {k})
    IN Sum(Keys)

\* RateLimiter.Allow(key)
Allow(key) ==
    /\ CallsMade < MaxCalls
    /\ IF key \notin DOMAIN requests \/ After(now, requests[key].resetTime)
       THEN /\ requests' = Store(key, rateLimitEntry(1, now + Window))
            /\ returns' = [returns EXCEPT ![key] =
                            Append(@, Returned(TRUE, limit - 1, now + Window))]
       ELSE IF LimitReached(requests[key])
       THEN /\ requests' = requests
            /\ returns' = [returns EXCEPT ![key] =
                            Append(@, Returned(FALSE, 0, requests[key].resetTime))]
       ELSE /\ requests' = Store(key, rateLimitEntry(requests[key].count + 1,
                                                    requests[key].resetTime))
            /\ returns' = [returns EXCEPT ![key] =
                            Append(@, Returned(TRUE,
                                               limit - (requests[key].count + 1),
                                               requests[key].resetTime))]
    /\ UNCHANGED <<limit, now>>
    /\ UNCHANGED outsideLimiter

\* RateLimiter.cleanup, one round of its ticker: the expired entries go
cleanup ==
    /\ \E k \in DOMAIN requests : After(now, requests[k].resetTime)
    /\ requests' = [k \in {j \in DOMAIN requests :
                            ~After(now, requests[j].resetTime)} |-> requests[k]]
    /\ UNCHANGED <<limit, now, returns>>
    /\ UNCHANGED outsideLimiter

\* time passes
Tick ==
    /\ now < MaxTime
    /\ now' = now + 1
    /\ UNCHANGED <<limit, requests, returns>>
    /\ UNCHANGED outsideLimiter

\* NewRateLimiter(limit, window)
NewRateLimiter(l) ==
    /\ limit = l
    /\ requests = << >>
    /\ now = 0
    /\ returns = [k \in Keys |-> <<>>]

InitLimiter ==
    /\ Requests(DefaultMaxParticipants, << >>)
    /\ NoConnections
    /\ NoPages
    /\ NoTracks
    /\ NoSaves
    /\ \E l \in 1..MaxLimit : NewRateLimiter(l)

NextLimiter ==
    \/ \E key \in Keys : Allow(key)
    \/ cleanup
    \/ Tick

SpecLimiter == InitLimiter /\ [][NextLimiter]_vars

(* Observations of the rate limiter *)

\* this step is a call of Allow(key)
AllowStep(key) == Len(returns'[key]) = Len(returns[key]) + 1

\* what the call of this step returned
Result(key) == returns'[key][Len(returns'[key])]

\* the requests of key that were let through in the window that ends at r
LetThrough(rets, r) ==
    {i \in DOMAIN rets : rets[i].allowed /\ rets[i].resetTime = r}

\* key has a window, and its reset time has not passed
InWindow(key) == key \in DOMAIN requests /\ now <= requests[key].resetTime

(* C30: in every window of a key at most limit requests are let through,   *)
(* and the count of the entry is the number let through.  A call made      *)
(* while the window is open and the count has reached limit is refused     *)
(* and leaves the entries as they are; a call made when the key has no     *)
(* window or its reset time has passed is let through and opens a window   *)
(* with count 1 that ends Window later; no other call is refused.  The     *)
(* remaining quota a call reports is never negative.  Calls are steps in   *)
(* any order, several at one reading of the clock.                         *)
C30_AtMostLimitPerWindow ==
    /\ [](\A key \in Keys :
            /\ \A i \in DOMAIN returns[key] :
                /\ returns[key][i].remaining >= 0
                /\ Cardinality(LetThrough(returns[key],
                                          returns[key][i].resetTime)) <= limit
            /\ key \in DOMAIN requests =>
                requests[key].count =
                    Cardinality(LetThrough(returns[key], requests[key].resetTime)))
    /\ [][\A key \in Keys : AllowStep(key) =>
            /\ InWindow(key) /\ requests[key].count >= limit =>
                /\ ~Result(key).allowed
                /\ requests' = requests
            /\ ~InWindow(key) =>
                /\ Result(key).allowed
                /\ requests'[key] = rateLimitEntry(1, now + Window)
            /\ ~Result(key).allowed =>
                InWindow(key) /\ requests[key].count = limit
            /\ Result(key).allowed =>
                Result(key).remaining = limit - requests'[key].count]_vars

\* a key used up its window with two calls at one reading of the clock, was
\* refused, and after the reset time its next call opened a window with
\* count 1
C30_Witness ==
    \E key \in Keys : \E i, j \in DOMAIN returns[key] :
        /\ i < j
        /\ ~returns[key][i].allowed
        /\ returns[key][j].allowed
        /\ returns[key][j].at > returns[key][i].resetTime
        /\ requests[key] = rateLimitEntry(1, returns[key][j].resetTime)
        /\ \E a, b \in 1..(i - 1) :
            /\ a < b
            /\ returns[key][a].allowed /\ returns[key][b].allowed
            /\ returns[key][a].at = returns[key][b].at

----------------------------------------------------------------------------
(***************************************************************************)
(* The useWebRTC hook of the WatchRoom page.  A page is one JavaScript     *)
(* thread: an event handler runs up to its next await in one step, and     *)
(* the rest of it runs in the step in which the awaited operation of the   *)
(* RTCPeerConnection finishes.  The operations of one RTCPeerConnection    *)
(* (setLocalDescription, setRemoteDescription) are chained: they finish in *)
(* the order they were called, and signalingState changes when they        *)
(* finish.  The browser fires negotiationneeded when the connection needs  *)
(* negotiation, is stable and has no operation under way.  Signaling       *)
(* messages carry a target, so the hub hands them to the page of the       *)
(* target in the order they were sent.                                     *)
(***************************************************************************)

(* Bounds of the pages *)

\* number of changes of the local streams of one page
MaxChanges == 1

\* number of ICE candidates one peer connection gathers
MaxCandidates == 1

\* number of times the link of one peer connection fails
MaxFailures == 2

\* isHost of the page of user e
isHost(e) == e = HostUser

\* const peerConnection: PeerConnection = {peer, targetUserId, makingOffer:
\* false, ignoreOffer: false}, with the state of the new RTCPeerConnection:
\*   ops           operations called and not finished, oldest first
\*   need          negotiation needed: "no", "yes" (the event is to fire),
\*                 "fired" (the event has fired for all that is needed),
\*                 "more" (it has fired, and more is needed since)
\*   local         type of peer.localDescription, "none" if null
\*   remote        peer.remoteDescription is not null
\*   tracks        the local stream is on the senders
\*   transceivers  peer.getTransceivers().length > 0
\*   link          peer.connectionState
\*   restarts      failures of the link answered by peer.restartIce()
\*   gathered      candidates onicecandidate has sent
\*   added         candidates given to peer.addIceCandidate
NewPeer ==
    [makingOffer |-> FALSE, ignoreOffer |-> FALSE, signalingState |-> "stable",
     ops |-> <<>>, need |-> "no", local |-> "none", remote |-> FALSE,
     tracks |-> FALSE, transceivers |-> FALSE, link |-> "new", restarts |-> 0,
     gathered |-> 0, added |-> 0]

\* getOrCreatePeer(targetUserId)
getOrCreatePeer(e, t) ==
    IF <<e, t>> \in DOMAIN peersRef THEN peersRef[<<e, t>>] ELSE NewPeer

\* peersRef.current.set(targetUserId, peerConnection), and every change of
\* the peer connection
SetPeer(e, t, p) ==
    [k \in DOMAIN peersRef \cup {<<e, t>>} |->
        IF k = <<e, t>> THEN p ELSE peersRef[k]]

\* the message sendSignal builds: type, user_id of the sender, and the type
\* of payload.sdp ("none" for a candidate)
Signal(type, from, sdp) == [type |-> type, user_id |-> from, sdp |-> sdp]

\* sendSignal(type, payload, userId, targetId), and the hub's sendToClient:
\* a target that is not connected gets nothing
sendSignal(w, type, from, target, sdp) ==
    IF target \in DOMAIN w
    THEN [w EXCEPT ![target] = Append(@, Signal(type, from, sdp))]
    ELSE w

\* the browser notes that the connection needs negotiation (addTrack,
\* removeTrack, addTransceiver, restartIce)
Needed(n) == IF n = "no" THEN "yes" ELSE IF n = "fired" THEN "more" ELSE n

\* updatePeerTracks(peer), as far as negotiation goes: tracks are added or
\* removed when the senders do not match the local streams
SyncTracks(e, p) ==
    IF p.tracks = media[e] THEN p
    ELSE [p EXCEPT !.tracks = media[e],
                   !.transceivers = TRUE,
                   !.need = Needed(@)]

\* initiatePeer(targetUserId)
initiatePeer(e, t) ==
    LET p == getOrCreatePeer(e, t) IN
    IF media[e] THEN SyncTracks(e, p)
    ELSE IF ~p.transceivers
         THEN [p EXCEPT !.transceivers = TRUE, !.need = Needed(@)]
         ELSE p

\* an operation the page has called: setLocalDescription() ("SLD") or
\* setRemoteDescription(sdp) ("SRD"), and the handler that awaits it
Operation(op, sdp, by) == [op |-> op, sdp |-> sdp, by |-> by]

\* the need for negotiation when the answer to the own offer is applied
AfterAnswered(n) == IF n = "more" THEN "yes" ELSE IF n = "fired" THEN "no" ELSE n

\* the need for negotiation when the own answer is applied: the answer may
\* or may not have carried what the connection needed
AfterAnswering(n) == IF n = "no" THEN {"no"} ELSE {"no", "yes"}

\* const offerCollision = signal.sdp.type === 'offer' &&
\*     (pc.makingOffer || peer.signalingState !== 'stable')
offerCollision(p, m) ==
    m.sdp = "offer" /\ (p.makingOffer \/ p.signalingState # "stable")

\* pc.ignoreOffer = !isHost && offerCollision
ignoreOfferMutant(e, p, m) == isHost(e) /\ offerCollision(p, m)

ignoreOffer(e, p, m) == ~isHost(e) /\ offerCollision(p, m)

(* Actions of a page *)

\* handleWebSocketMessage, case USER_JOINED
UserJoinedMessage(e, u) ==
    /\ e \in pages /\ u \in pages \ {e}
    /\ IF isHost(e)
       THEN peersRef' = SetPeer(e, u, initiatePeer(e, u))
       ELSE UNCHANGED peersRef
    /\ UNCHANGED <<pages, media, wire, changes>>
    /\ UNCHANGED outsidePages

\* the user u leaves: the page is closed (cleanup closes its peer
\* connections), the connection to the server goes and what was on its way
\* to the page is lost
PageClosed(u) ==
    /\ u \in pages /\ ~isHost(u)
    /\ pages' = pages \ {u}
    /\ peersRef' = [k \in {j \in DOMAIN peersRef : j[1] # u} |-> peersRef[k]]
    /\ wire' = [e \in pages \ {u} |-> wire[e]]
    /\ UNCHANGED <<media, changes>>
    /\ UNCHANGED outsidePages

\* handleWebSocketMessage, case USER_LEFT: removePeer(payload.user_id)
UserLeftMessage(e, u) ==
    /\ e \in pages /\ u \notin pages
    /\ <<e, u>> \in DOMAIN peersRef
    /\ peersRef' = [k \in DOMAIN peersRef \ {<<e, u>>} |-> peersRef[k]]
    /\ UNCHANGED <<pages, media, wire, changes>>
    /\ UNCHANGED outsidePages

\* peer.onnegotiationneeded, up to await peer.setLocalDescription()
onnegotiationneeded(e, t) ==
    /\ <<e, t>> \in DOMAIN peersRef
    /\ LET p == peersRef[<<e, t>>] IN
        /\ p.need = "yes"
        /\ p.signalingState = "stable"
        /\ p.ops = <<>>
        /\ peersRef' = SetPeer(e, t,
                [p EXCEPT !.makingOffer = TRUE,
                          !.need = "fired",
                          !.ops = <<Operation("SLD", "none", "negotiation")>>])
    /\ UNCHANGED <<pages, media, wire, changes>>
    /\ UNCHANGED outsidePages

\* setLocalDescription() finishes: an answer when a remote offer is
\* pending, else an offer; then the handler that awaited it goes on:
\* onnegotiationneeded sends the description as WEBRTC_OFFER and resets
\* makingOffer, handleSignal sends it as WEBRTC_ANSWER
LocalDescriptionSet(e, t) ==
    /\ <<e, t>> \in DOMAIN peersRef
    /\ LET p == peersRef[<<e, t>>] IN
        /\ p.ops # <<>>
        /\ Head(p.ops).op = "SLD"
        /\ LET made == IF p.signalingState = "have-remote-offer"
                       THEN "answer" ELSE "offer"
               by == Head(p.ops).by
           IN /\ \E n \in IF made = "answer" THEN AfterAnswering(p.need)
                          ELSE {p.need} :
                    peersRef' = SetPeer(e, t,
                        [p EXCEPT !.ops = Tail(@),
                                  !.local = made,
                                  !.signalingState = IF made = "answer"
                                                     THEN "stable"
                                                     ELSE "have-local-offer",
                                  !.need = n,
                                  !.makingOffer = IF by = "negotiation"
                                                  THEN FALSE ELSE @])
              /\ wire' = sendSignal(wire,
                                    IF by = "negotiation"
                                    THEN MessageTypeWebRTCOffer
                                    ELSE MessageTypeWebRTCAnswer,
                                    e, t, made)
    /\ UNCHANGED <<pages, media, changes>>
    /\ UNCHANGED outsidePages

\* setRemoteDescription(signal.sdp) finishes.  An offer is applied in any
\* state (a local offer is rolled back), an answer only to a local offer:
\* otherwise the call throws and handleSignal logs the error.  Then
\* handleSignal goes on: updatePeerTracks(peer) and, for an offer, up to
\* await peer.setLocalDescription()
RemoteDescriptionSet(e, t) ==
    /\ <<e, t>> \in DOMAIN peersRef
    /\ LET p == peersRef[<<e, t>>] IN
        /\ p.ops # <<>>
        /\ Head(p.ops).op = "SRD"
        /\ LET sdp == Head(p.ops).sdp IN
            IF sdp = "answer" /\ p.signalingState # "have-local-offer"
            THEN peersRef' = SetPeer(e, t, [p EXCEPT !.ops = Tail(@)])
            ELSE LET q == [p EXCEPT
                            !.ops = IF sdp = "offer"
                                    THEN Append(Tail(@),
                                                Operation("SLD", "none", "signal"))
                                    ELSE Tail(@),
                            !.remote = TRUE,
                            !.transceivers = TRUE,
                            !.signalingState = IF sdp = "offer"
                                               THEN "have-remote-offer"
                                               ELSE "stable",
                            !.need = IF sdp = "offer" THEN @
                                     ELSE AfterAnswered(@)]
                 IN peersRef' = SetPeer(e, t, SyncTracks(e, q))
    /\ UNCHANGED <<pages, media, wire, changes>>
    /\ UNCHANGED outsidePages

\* handleWebSocketMessage, case WEBRTC_OFFER / WEBRTC_ANSWER /
\* ICE_CANDIDATE: handleSignal(message.user_id, payload), up to its await
handleSignal(e) ==
    /\ e \in pages
    /\ wire[e] # <<>>
    /\ LET m == Head(wire[e])
           fromUserId == m.user_id
           p == getOrCreatePeer(e, fromUserId)
       IN peersRef' = SetPeer(e, fromUserId,
            IF m.sdp # "none"
            THEN IF ignoreOffer(e, p, m)
                 THEN [p EXCEPT !.ignoreOffer = TRUE]
                 ELSE [p EXCEPT !.ignoreOffer = FALSE,
                                !.ops = Append(@, Operation("SRD", m.sdp, "signal"))]
            ELSE IF p.remote
                 THEN [p EXCEPT !.added = @ + 1]
                 ELSE p)
    /\ wire' = [wire EXCEPT ![e] = Tail(@)]
    /\ UNCHANGED <<pages, media, changes>>
    /\ UNCHANGED outsidePages

\* voiceStream or screenStream changes: the effect calls updatePeerTracks
\* for every peer of the page
StreamsChanged(e) ==
    /\ e \in pages
    /\ changes[e] < MaxChanges
    /\ media' = [media EXCEPT ![e] = ~@]
    /\ changes' = [changes EXCEPT ![e] = @ + 1]
    /\ peersRef' = [k \in DOMAIN peersRef |->
                     IF k[1] = e /\ peersRef[k].tracks = media[e]
                     THEN [peersRef[k] EXCEPT !.tracks = ~media[e],
                                              !.transceivers = TRUE,
                                              !.need = Needed(@)]
                     ELSE peersRef[k]]
    /\ UNCHANGED <<pages, wire>>
    /\ UNCHANGED outsidePages

\* peer.onicecandidate: the browser gathers once a local description is set
onicecandidate(e, t) ==
    /\ <<e, t>> \in DOMAIN peersRef
    /\ LET p == peersRef[<<e, t>>] IN
        /\ p.local # "none"
        /\ p.gathered < MaxCandidates
        /\ peersRef' = SetPeer(e, t, [p EXCEPT !.gathered = @ + 1])
    /\ wire' = sendSignal(wire, MessageTypeICECandidate, e, t, "none")
    /\ UNCHANGED <<pages, media, changes>>
    /\ UNCHANGED outsidePages

\* peer.onconnectionstatechange, case 'connected'
Connected(e, t) ==
    /\ <<e, t>> \in DOMAIN peersRef
    /\ LET p == peersRef[<<e, t>>] IN
        /\ p.link # "connected"
        /\ p.local # "none" /\ p.remote
        /\ p.signalingState = "stable" /\ p.need = "no"
        /\ peersRef' = SetPeer(e, t, [p EXCEPT !.link = "connected"])
    /\ UNCHANGED <<pages, media, wire, changes>>
    /\ UNCHANGED outsidePages

\* peer.onconnectionstatechange, case 'failed', and
\* peer.oniceconnectionstatechange: both call peer.restartIce()
Failed(e, t) ==
    /\ <<e, t>> \in DOMAIN peersRef
    /\ LET p == peersRef[<<e, t>>] IN
        /\ p.link # "failed"
        /\ p.local # "none" /\ p.remote
        /\ p.restarts < MaxFailures
        /\ peersRef' = SetPeer(e, t, [p EXCEPT !.link = "failed",
                                               !.restarts = @ + 1,
                                               !.need = Needed(@)])
    /\ UNCHANGED <<pages, media, wire, changes>>
    /\ UNCHANGED outsidePages

\* the pages of the users in P are open, no peer connection is made yet
InitPages(P) ==
    /\ Requests(DefaultMaxParticipants, << >>)
    /\ NoConnections
    /\ NoCalls
    /\ NoTracks
    /\ NoSaves
    /\ pages = P
    /\ peersRef = << >>
    /\ media \in [P -> BOOLEAN]
    /\ wire = [e \in P |-> <<>>]
    /\ changes = [e \in P |-> 0]

\* the host and one viewer
InitPair == InitPages({HostUser, 1})

\* a pair whose local streams change and whose connections gather candidates
NextPair ==
    \/ \E e \in pages : \E u \in pages : UserJoinedMessage(e, u)
    \/ \E e \in pages : \E t \in pages : onnegotiationneeded(e, t)
    \/ \E e \in pages : \E t \in pages : LocalDescriptionSet(e, t)
    \/ \E e \in pages : \E t \in pages : RemoteDescriptionSet(e, t)
    \/ \E e \in pages : handleSignal(e)
    \/ \E e \in pages : StreamsChanged(e)
    \/ \E e \in pages : \E t \in pages : onicecandidate(e, t)

SpecPair == InitPair /\ [][NextPair]_vars

\* a pair whose link connects and fails
NextLink ==
    \/ \E e \in pages : \E u \in pages : UserJoinedMessage(e, u)
    \/ \E e \in pages : \E t \in pages : onnegotiationneeded(e, t)
    \/ \E e \in pages : \E t \in pages : LocalDescriptionSet(e, t)
    \/ \E e \in pages : \E t \in pages : RemoteDescriptionSet(e, t)
    \/ \E e \in pages : handleSignal(e)
    \/ \E e \in pages : \E t \in pages : Connected(e, t)
    \/ \E e \in pages : \E t \in pages : Failed(e, t)

SpecLink == InitPair /\ [][NextLink]_vars

\* a client connected as viewer u sends a webrtc_offer frame of its own
\* making with the viewer t as target_id: handleMessage relays every
\* signaling frame of every connection of the room (Route), so it reaches
\* the page of t.  One such frame as long as neither page knows the other
ForeignSignal(u, t) ==
    /\ u \in pages /\ t \in pages \ {u}
    /\ ~isHost(u) /\ ~isHost(t)
    /\ <<t, u>> \notin DOMAIN peersRef
    /\ <<u, t>> \notin DOMAIN peersRef
    /\ wire[t] = <<>>
    /\ wire' = sendSignal(wire, MessageTypeWebRTCOffer, u, t, "offer")
    /\ UNCHANGED <<pages, peersRef, media, changes>>
    /\ UNCHANGED outsidePages

\* the host and two viewers, none with a local stream
InitStar ==
    /\ InitPages({HostUser, 1, 2})
    /\ \A e \in pages : ~media[e]

NextStar ==
    \/ \E e \in pages : \E u \in pages : UserJoinedMessage(e, u)
    \/ \E u \in pages : PageClosed(u)
    \/ \E e \in pages : \E u \in DOMAIN media : UserLeftMessage(e, u)
    \/ \E e \in pages : \E t \in pages : onnegotiationneeded(e, t)
    \/ \E e \in pages : \E t \in pages : LocalDescriptionSet(e, t)
    \/ \E e \in pages : \E t \in pages : RemoteDescriptionSet(e, t)
    \/ \E e \in pages : handleSignal(e)
    \/ \E u \in pages : \E t \in pages : ForeignSignal(u, t)

SpecStar == InitStar /\ [][NextStar]_vars

(* Observations of the pages *)

\* the peer connections of the pair of pages e and t
PairMade(e, t) == <<e, t>> \in DOMAIN peersRef /\ <<t, e>> \in DOMAIN peersRef

\* nothing is under way at the page of e for its peer t: no message on the
\* way to it, no operation called and not finished, no event to fire
Idle(e, t) ==
    /\ wire[e] = <<>>
    /\ peersRef[<<e, t>>].ops = <<>>
    /\ ~(peersRef[<<e, t>>].need = "yes"
         /\ peersRef[<<e, t>>].signalingState = "stable")

\* the page of e waits for an answer to its offer
AwaitsAnswer(e, t) == peersRef[<<e, t>>].signalingState = "have-local-offer"

\* the page of e has ignored the last offer of t as colliding with its own
Ignores(e, t) == peersRef[<<e, t>>].ignoreOffer

\* the last offer of the page of e was answered
OfferWon(e, t) ==
    /\ peersRef[<<e, t>>].signalingState = "stable"
    /\ peersRef[<<e, t>>].local = "offer"

----------------------------------------------------------------------------
(* C24: of the two pages of a pair at most one ignores the offer of the    *)
(* other, never both offers are the ones answered, and once a page has     *)
(* ignored a colliding offer the pair settles: when nothing is under way   *)
(* any more (no message, no operation, no event), no page still waits for  *)
(* an answer to its offer.                                                 *)
C24_CollisionSettles ==
    \A e \in pages : \A t \in pages \ {e} : PairMade(e, t) =>
        /\ ~(Ignores(e, t) /\ Ignores(t, e))
        /\ ~(OfferWon(e, t) /\ OfferWon(t, e))
        /\ (Ignores(e, t) \/ Ignores(t, e)) /\ Idle(e, t) /\ Idle(t, e) =>
                ~AwaitsAnswer(e, t) /\ ~AwaitsAnswer(t, e)

----------------------------------------------------------------------------
\* this step is handleSignal of the page of e
SignalStep(e) == wire[e] # <<>> /\ wire'[e] = Tail(wire[e])

\* this step is handleSignal of the page of e taking an offer that collides
\* with an offer of its own
CollisionStep(e) ==
    /\ SignalStep(e)
    /\ offerCollision(getOrCreatePeer(e, Head(wire[e]).user_id), Head(wire[e]))

\* in this step the page of e lets the offer of its peer t pass: it goes on
\* to apply it, which rolls back its own
YieldsTo(e, t) ==
    /\ ~peersRef'[<<e, t>>].ignoreOffer
    /\ peersRef'[<<e, t>>].ops =
            Append(getOrCreatePeer(e, t).ops, Operation("SRD", "offer", "signal"))

\* in this step the page of e drops the offer of its peer t and keeps its own
KeepsOwn(e, t) ==
    /\ peersRef'[<<e, t>>].ignoreOffer
    /\ peersRef'[<<e, t>>].ops = getOrCreatePeer(e, t).ops
    /\ peersRef'[<<e, t>>].signalingState = getOrCreatePeer(e, t).signalingState

\* in this step the page of e has applied an offer of t and goes on to answer
AppliesOffer(e, t) ==
    /\ <<e, t>> \in DOMAIN peersRef
    /\ peersRef[<<e, t>>].ops # <<>>
    /\ Head(peersRef[<<e, t>>].ops) = Operation("SRD", "offer", "signal")
    /\ peersRef'[<<e, t>>].ops # peersRef[<<e, t>>].ops

(* C25 as the specification has it: on an offer collision the page of the  *)
(* host ignores the incoming offer and keeps its own, the page of a viewer *)
(* yields, in every collision of the pair's lifetime.                      *)
C25_HostImpolite ==
    [][\A e \in pages : CollisionStep(e) =>
        IF isHost(e) THEN KeepsOwn(e, Head(wire[e]).user_id)
        ELSE YieldsTo(e, Head(wire[e]).user_id)]_vars

(* C25 amended: on an offer collision the page of the host yields (it      *)
(* applies the remote offer, which leaves it with the remote offer pending *)
(* and an answer to make) and the page of a viewer ignores the incoming    *)
(* offer and keeps its own, in every collision of the pair's lifetime.     *)
C25_HostPolite ==
    [][\A e \in pages :
        /\ CollisionStep(e) =>
            IF isHost(e) THEN YieldsTo(e, Head(wire[e]).user_id)
            ELSE KeepsOwn(e, Head(wire[e]).user_id)
        /\ \A t \in pages : AppliesOffer(e, t) =>
            /\ peersRef'[<<e, t>>].signalingState = "have-remote-offer"
            /\ peersRef'[<<e, t>>].ops =
                Append(Tail(peersRef[<<e, t>>].ops),
                       Operation("SLD", "none", "signal"))]_vars

\* both pages have made an offer; the host has taken the offer of the viewer
\* and is about to roll back its own, the viewer has ignored the host's
C25_Witness ==
    /\ PairMade(HostUser, 1)
    /\ Ignores(1, HostUser)
    /\ AwaitsAnswer(1, HostUser)
    /\ AwaitsAnswer(HostUser, 1)
    /\ peersRef[<<HostUser, 1>>].ops = <<Operation("SRD", "offer", "signal")>>

----------------------------------------------------------------------------
(* C26: no candidate is lost: when no message is on the way to a page and  *)
(* its peer connection has its remote description and no operation under   *)
(* way, every candidate the other page has sent it has been given to the   *)
(* connection.                                                             *)
C26_CandidatesKept ==
    \A e \in pages : \A t \in pages \ {e} :
        /\ PairMade(e, t)
        /\ wire[e] = <<>>
        /\ peersRef[<<e, t>>].ops = <<>>
        /\ peersRef[<<e, t>>].remote
        => peersRef[<<e, t>>].added = peersRef[<<t, e>>].gathered

----------------------------------------------------------------------------
\* in this step the link of the peer connection of e to t fails
FailStep(e, t) ==
    /\ <<e, t>> \in DOMAIN peersRef
    /\ peersRef[<<e, t>>].link # "failed"
    /\ <<e, t>> \in DOMAIN peersRef'
    /\ peersRef'[<<e, t>>].link = "failed"

(* C28: the first failure of a link starts one restart negotiation; at the *)
(* next failure the peer connection is not restarted again: the page has   *)
(* closed it and discarded its peer state.                                 *)
C28_OneRestartThenClosed ==
    [][\A e \in pages : \A t \in pages :
        /\ <<e, t>> \in DOMAIN peersRef /\ peersRef[<<e, t>>].restarts >= 1
            => ~FailStep(e, t)
        /\ FailStep(e, t) =>
            /\ peersRef'[<<e, t>>].restarts = 1
            /\ peersRef'[<<e, t>>].need # "no"]_vars

----------------------------------------------------------------------------
(* C29: every peer connection a page holds is between the host and a       *)
(* viewer: the page of a viewer holds none for another viewer, and the     *)
(* host holds at most one for each of the other participants.              *)
C29_StarOnHost ==
    /\ \A k \in DOMAIN peersRef : isHost(k[1]) # isHost(k[2])
    /\ Cardinality({k \in DOMAIN peersRef : isHost(k[1])})
            <= Cardinality(pages) - 1

----------------------------------------------------------------------------
(***************************************************************************)
(* updatePeerTracks of the useWebRTC hook, for one peer connection: the    *)
(* senders of the connection and the tracks of the two local streams.      *)
(* replaceTrack is asynchronous: the browser changes sender.track at once  *)
(* when the sender is not sending yet, and in a later task when it is.     *)
(***************************************************************************)

(* Bounds of the track model *)

\* number of changes of the local streams, each followed by updatePeerTracks
MaxPasses == 2

\* sender.track of a sender without track
NoTrack == "null"

\* the streams the page may have: no voice stream or one microphone, no
\* screen stream or one capture, with or without the audio of the tab
VoiceStreams == {<<>>, <<"mic1">>, <<"mic2">>}

ScreenStreams == {<<>>, <<"scr1">>, <<"scr2">>, <<"tab1", "scr1">>}

\* track.kind
Kind(id) == IF id \in {"scr1", "scr2"} THEN "video" ELSE "audio"

Ids(ts) == {ts[i] : i \in DOMAIN ts}

\* an RTCRtpSender: its track, whether its transceiver sends, and the track
\* of a replaceTrack that has not finished
Sender(track, sending, next) == [track |-> track, sending |-> sending, next |-> next]

\* senders.find(pred), M being the indices of the senders that match pred:
\* the index of the first that matches, 0 if none does
Find(M) ==
    IF M = {} THEN 0 ELSE CHOOSE i \in M : \A j \in M : i <= j

\* tracksToSend.forEach: add or replace tracks, from the i-th on.  S is the
\* senders of the connection, the first n of them are those of
\* peer.getSenders() at the start of the pass
RECURSIVE AddOrReplace(_, _, _, _, _)
AddOrReplace(S, n, ts, i, atOnce) ==
    IF i > Len(ts) THEN S
    ELSE LET id == ts[i]
             existingSender ==
                Find({k \in 1..n : S[k].track # NoTrack /\ S[k].track = id})
             kindSender ==
                Find({k \in 1..n : /\ S[k].track # NoTrack
                                   /\ Kind(S[k].track) = Kind(id)
                                   /\ S[k].track \notin Ids(ts)})
         IN IF existingSender # 0 THEN AddOrReplace(S, n, ts, i + 1, atOnce)
            ELSE IF kindSender # 0 /\ Kind(id) = "video"
            THEN AddOrReplace(
                    [S EXCEPT ![kindSender] =
                        IF atOnce THEN Sender(id, @.sending, NoTrack)
                        ELSE Sender(@.track, @.sending, id)],
                    n, ts, i + 1, atOnce)
            ELSE AddOrReplace(Append(S, Sender(id, TRUE, NoTrack)),
                              n, ts, i + 1, atOnce)

\* senders.forEach: remove tracks that are no longer needed
RemoveOrphans(S, n, ts) ==
    [i \in DOMAIN S |->
        IF i <= n /\ S[i].track # NoTrack /\ S[i].track \notin Ids(ts)
        THEN Sender(NoTrack, FALSE, S[i].next)
        ELSE S[i]]

\* updatePeerTracks(peer)
updatePeerTracks(S, ts, atOnce) ==
    RemoveOrphans(AddOrReplace(S, Len(S), ts, 1, atOnce), Len(S), ts)

\* the effect on [voiceStream, screenStream]: the streams change and
\* updatePeerTracks runs
StreamsSet(v, sc) ==
    /\ passes < MaxPasses
    /\ <<v, sc>> # <<voice, screen>>
    /\ voice' = v
    /\ screen' = sc
    /\ \E atOnce \in BOOLEAN :
        senders' = updatePeerTracks(senders, v \o sc, atOnce)
    /\ passes' = passes + 1
    /\ UNCHANGED outsideTracks

\* a replaceTrack finishes: the sender has the new track
ReplaceDone(i) ==
    /\ i \in DOMAIN senders
    /\ senders[i].next # NoTrack
    /\ senders' = [senders EXCEPT ![i] = Sender(@.next, @.sending, NoTrack)]
    /\ UNCHANGED <<voice, screen, passes>>
    /\ UNCHANGED outsideTracks

\* a new peer connection of a page with any local streams: initiatePeer
\* calls updatePeerTracks
InitTracks ==
    /\ Requests(DefaultMaxParticipants, << >>)
    /\ NoConnections
    /\ NoCalls
    /\ NoPages
    /\ NoSaves
    /\ voice \in VoiceStreams
    /\ screen \in ScreenStreams
    /\ senders = updatePeerTracks(<<>>, voice \o screen, TRUE)
    /\ passes = 0

NextTracks ==
    \/ \E v \in VoiceStreams : \E sc \in ScreenStreams : StreamsSet(v, sc)
    \/ \E i \in DOMAIN senders : ReplaceDone(i)

SpecTracks == InitTracks /\ [][NextTracks]_vars

(* Observations of the tracks *)

\* the tracks the connection is sending
Sent == {senders[i].track :
            i \in {j \in DOMAIN senders :
                    senders[j].sending /\ senders[j].track # NoTrack}}

\* the tracks of the local streams
Wanted == Ids(voice \o screen)

\* no replaceTrack is under way
Replaced == \A i \in DOMAIN senders : senders[i].next = NoTrack

\* this step is a pass of updatePeerTracks
PassStep == passes' = passes + 1

\* in this step the input `old` has got another source: its track a is now
\* the track b of the same kind
Swapped(old, new, a, b) ==
    /\ a \in Ids(old) /\ a \notin Ids(new)
    /\ b \in Ids(new) /\ b \notin Ids(old)
    /\ Kind(a) = Kind(b)

\* C27: after a change of the local streams the connection sends exactly the
\* tracks of the streams there are - no track of a stream that is gone, every
\* track of a stream that is there - and in the pass that follows a swap the
\* sender of the old track keeps sending and gets the new track
C27_TracksFollowInputs ==
    /\ [](Replaced => Sent = Wanted)
    /\ [][PassStep =>
            \A a \in Ids(voice \o screen) : \A b \in Ids(voice' \o screen') :
                Swapped(voice, voice', a, b) \/ Swapped(screen, screen', a, b) =>
                    \A i \in DOMAIN senders : senders[i].track = a =>
                        /\ senders'[i].sending
                        /\ b \in {senders'[i].track, senders'[i].next}]_vars

----------------------------------------------------------------------------
(***************************************************************************)
(* The chat backlog: the Redis list chat:<room id> that                    *)
(* RedisService.SaveChatMessage writes and registerClient replays.  Every  *)
(* call of Hub.SaveMessage is a goroutine of its own that takes one step   *)
(* per Redis command.  Nothing in the server calls Hub.SaveMessage: here   *)
(* it is called from outside, for either room, at any time.                *)
(***************************************************************************)

(* Bounds of the backlog model *)

\* length the list is trimmed to ("Limit history to 50 messages"), scaled
\* down with the capacity of the Send channels
BacklogLen == 1

\* number of calls of Hub.SaveMessage during a run
MaxSaves == 2

\* what the backlog actions leave alone
outsideBacklog == <<sessionVars, limiterVars, pageVars, trackVars>>

\* the message of the n-th call of Hub.SaveMessage: a chat frame of a
\* connection that is not one of the run
SavedFrame(n) == ClientFrame(MessageTypeChat, NoID, 0, n)

\* LTRIM key -k -1: the last k elements stay
LTrimMutant(q, k) == IF Len(q) <= k THEN q ELSE SubSeq(q, 1, k)

LTrim(q, k) == IF Len(q) <= k THEN q ELSE SubSeq(q, Len(q) - k + 1, Len(q))

\* Hub.SaveMessage(sid, message): go func() { SaveChatMessage(...) }()
SaveMessage(sid) ==
    /\ Cardinality(DOMAIN saving) < MaxSaves
    /\ LET n == Cardinality(DOMAIN saving) + 1 IN
        saving' = [k \in DOMAIN saving \cup {n} |->
                    IF k = n THEN [at |-> "rpush", sid |-> sid]
                    ELSE saving[k]]
    /\ UNCHANGED saved
    /\ UNCHANGED hubVars
    /\ UNCHANGED outsideBacklog

\* SaveChatMessage: r.client.RPush(ctx, key, message)
RPush(n) ==
    /\ n \in DOMAIN saving
    /\ saving[n].at = "rpush"
    /\ LET sid == saving[n].sid IN
        /\ chat' = [k \in DOMAIN chat \cup {sid} |->
                        IF k = sid THEN Append(GetChatHistory(sid), SavedFrame(n))
                        ELSE chat[k]]
        /\ saved' = [k \in DOMAIN saved \cup {sid} |->
                        IF k = sid
                        THEN Append(IF sid \in DOMAIN saved THEN saved[sid] ELSE <<>>,
                                    SavedFrame(n))
                        ELSE saved[k]]
    /\ saving' = [saving EXCEPT ![n].at = "ltrim"]
    /\ UNCHANGED <<client, cpc, nread, sessions, Send, broadcast, direct,
                   wpump, unregs>>
    /\ UNCHANGED outsideBacklog

\* SaveChatMessage: r.client.LTrim(ctx, key, -50, -1), then Expire, which
\* sets the time to live of the list and leaves its content
SaveTrim(n) ==
    /\ n \in DOMAIN saving
    /\ saving[n].at = "ltrim"
    /\ chat' = [chat EXCEPT ![saving[n].sid] = LTrim(@, BacklogLen)]
    /\ saving' = [saving EXCEPT ![n].at = "done"]
    /\ UNCHANGED saved
    /\ UNCHANGED <<client, cpc, nread, sessions, Send, broadcast, direct,
                   wpump, unregs>>
    /\ UNCHANGED outsideBacklog

NextBacklog ==
    \/ \E sid \in {RoomID, SecondRoom} : SaveMessage(sid)
    \/ \E n \in DOMAIN saving : RPush(n)
    \/ \E n \in DOMAIN saving : SaveTrim(n)
    \/ \E c \in Conns : HubRegister(c)
    \/ \E c \in Conns : HubUnregister(c)
    \/ \E c \in Conns : WritePump(c)

SpecBacklog == InitHub /\ [][NextBacklog]_vars

(* Observations of the backlog *)

\* every message pushed to chat:<sid> so far, oldest first
Saved(sid) == IF sid \in DOMAIN saved THEN saved[sid] ELSE <<>>

----------------------------------------------------------------------------
(* C31: the step that registers connection c puts c in the table of its    *)
(* room, puts the chat backlog of the room, oldest first and nothing else, *)
(* on the Send channel of c, puts one UserJoined of c on the Send channel  *)
(* of every other member of the room that has space for it, and changes no *)
(* other channel; the UserJoined of c is never on the Send channel of c.   *)
C31_RegisterReplaysThenAnnounces ==
    /\ [](\A c \in Conns : ~InSeq(UserJoined(c), Send[c]))
    /\ [][\A c \in Conns :
            RegisterStep(c) =>
                LET sid == client[c].SessionID
                    history == GetChatHistory(sid)
                IN /\ c \in sessions'[sid]
                   /\ Len(history) <= QueueCap => Send'[c] = history
                   /\ \A d \in Conns \ {c} :
                        /\ Enqueued(d) =
                            IF d \in SessionClients(sid) /\ ~Full(d)
                            THEN <<UserJoined(c)>> ELSE <<>>
                        /\ SubSeq(Send'[d], 1, Len(Send[d])) = Send[d]]_vars

\* a connection has registered in a room that had members and a backlog of
\* two messages: it holds the two in the order they were saved, and another
\* member holds its UserJoined
C31_Witness ==
    \E c \in Conns : \E d \in Conns \ {c} :
        /\ cpc[c] = "open"
        /\ Len(Send[c]) = 2
        /\ Send[c] = Saved(client[c].SessionID)
        /\ InSeq(UserJoined(c), Send[d])
        /\ {c, d} \subseteq SessionClients(client[c].SessionID)

----------------------------------------------------------------------------
(* C33: what registerClient reads as the backlog of a room is never longer *)
(* than the length the list is trimmed to, and is the end of the sequence  *)
(* of messages saved for the room, in the order they were saved.           *)
C33_BacklogBounded ==
    [][\A c \in Conns :
        RegisterStep(c) =>
            LET history == GetChatHistory(client[c].SessionID) IN
            /\ Len(history) <= BacklogLen
            /\ history = LTrim(Saved(client[c].SessionID), BacklogLen)]_vars

----------------------------------------------------------------------------
(* Further observations of the hub *)

\* every client the room table holds
Registered == UNION {sessions[s] : s \in DOMAIN sessions}

\* the room table after this step
RegisteredNext == UNION {sessions'[s] : s \in DOMAIN sessions'}

\* in this step the hub has a message for d and finds its Send channel full
Overflows(d) ==
    /\ Full(d)
    /\ \/ BroadcastStep /\ d \in Recipients(Head(broadcast))
       \/ DirectStep /\ Targets(Head(direct)) = {d}

\* the connection a frame in a Send channel is about: the sender of a frame
\* a client sent, the client a notice of the hub names
Origin(f) == client[f.conn]

----------------------------------------------------------------------------
(* C32: no room of the hub table is ever empty.  The step that unregisters *)
(* the last connection of a room deletes the room, and the step that       *)
(* unregisters connection c puts the UserLeft of c only on Send channels   *)
(* of connections that were in the room of c and still are.                *)
C32_NoEmptyRoom ==
    /\ [](\A sid \in DOMAIN sessions : sessions[sid] # {})
    /\ [][\A c \in Conns :
            UnregisterStep(c) =>
                LET sid == client[c].SessionID
                    rest == SessionClients(sid) \ {c}
                IN /\ rest = {} => sid \notin DOMAIN sessions'
                   /\ \A d \in Conns :
                        InSeq(UserLeft(c), Enqueued(d)) =>
                            /\ d \in rest
                            /\ sid \in DOMAIN sessions' /\ d \in sessions'[sid]]_vars

\* the only connection of a room has been unregistered and the room is gone,
\* while in a room that stays a member holds the UserLeft of another
C32_Witness ==
    /\ \E c \in Conns :
        /\ cpc[c] = "gone" /\ unregs[c] = 1
        /\ client[c].SessionID \notin DOMAIN sessions
    /\ \E c \in Conns : \E d \in Registered :
        /\ InSeq(UserLeft(c), Send[d])
        /\ d \in SessionClients(client[c].SessionID)

----------------------------------------------------------------------------
(* C34: when the hub has a message for a connection whose Send channel is  *)
(* full, that step takes the connection out of the room table and closes   *)
(* its Send channel.                                                       *)
C34_OverflowDestroys ==
    [][\A d \in Conns :
        Overflows(d) => d \notin RegisteredNext /\ Send'[d] = <<>>]_vars

----------------------------------------------------------------------------
(* C37: every frame in a Send channel, and every request waiting for the   *)
(* hub, comes from a connection of the room of the connection that gets    *)
(* it, whatever target the sender named; and the room table holds a        *)
(* connection only under the room of its token.                            *)
C37_RoomsAreIsolated ==
    /\ \A d \in Conns : \A i \in DOMAIN Send[d] :
        Origin(Send[d][i]).SessionID = client[d].SessionID
    /\ \A i \in DOMAIN broadcast :
        broadcast[i].SessionID = Origin(broadcast[i].Message).SessionID
    /\ \A i \in DOMAIN direct :
        direct[i].SessionID = Origin(direct[i].Message).SessionID
    /\ \A sid \in DOMAIN sessions : \A c \in sessions[sid] :
        client[c].SessionID = sid

\* a signaling frame names as its target a participant who has a connection
\* registered in the other room, and is in the Send channel of a connection
\* of that participant in the sender's room
C37_Witness ==
    \E d \in Registered : \E e \in Registered \ {d} : \E i \in DOMAIN Send[e] :
        /\ client[d].SessionID # client[e].SessionID
        /\ client[d].UserID = client[e].UserID
        /\ ~Send[e][i].hub
        /\ Send[e][i].target_id = client[d].UserID

----------------------------------------------------------------------------
(* C38: a connection that has been unregistered is in no room, its Send    *)
(* channel is closed, and no step puts anything on it.                     *)
C38_NothingOnClosedQueue ==
    /\ [](\A c \in Conns :
            cpc[c] = "gone" => c \notin Registered /\ Send[c] = <<>>)
    /\ [][\A c \in Conns : cpc[c] = "gone" => Send'[c] = <<>>]_vars

\* a connection has been unregistered and the hub has handled a broadcast
\* of its room afterwards: a member holds the UserLeft and, behind it, a
\* frame of a client
C38_Witness ==
    \E c \in Conns : \E d \in Registered :
        /\ cpc[c] = "gone"
        /\ client[d].SessionID = client[c].SessionID
        /\ Len(Send[d]) = 2
        /\ Send[d][1] = UserLeft(c)
        /\ ~Send[d][2].hub

----------------------------------------------------------------------------
(* C39: the step that unregisters a connection of a participant who has    *)
(* another connection registered in the room puts no UserLeft of that      *)
(* participant on the Send channel of any other participant.               *)
C39_NoUserLeftWhileConnected ==
    [][\A c \in Conns :
        /\ UnregisterStep(c)
        /\ ConnectionsOf(client[c].UserID, client[c].SessionID) \ {c} # {}
        => \A d \in Conns :
                client[d].UserID # client[c].UserID =>
                    ~InSeq(UserLeft(c), Enqueued(d))]_vars

----------------------------------------------------------------------------
(***************************************************************************)
(* The hub with the two halves of an unregistration apart: ReadPump leaves *)
(* its loop and waits at the send on h.unregister, and Hub.Run takes the   *)
(* client from the channel when it comes to it.                            *)
(***************************************************************************)

\* the Session Store after ReadPump has left its loop: the deferred function
\* calls Hub.Unregister and Conn.Close, nothing of the SessionService
StoreAfterExitMutant(c) ==
    [sid \in DOMAIN store |->
        IF sid = client[c].SessionID
        THEN [store[sid] EXCEPT
                !.Participants = Without(@, client[c].UserID)]
        ELSE store[sid]]

StoreAfterExit(c) == store

\* WritePump has returned on a failed write: its deferred function has
\* closed the Conn, and the ReadMessage of ReadPump fails
ConnClosedMutant(c) == FALSE

ConnClosed(c) == wpump[c] = "failed"

\* ReadMessage fails (the peer is gone, the read deadline has passed or the
\* Conn is closed): ReadPump leaves its loop, its deferred function is at
\* c.hub.Unregister(c)
ReadPumpExit(c) ==
    /\ ReadPumpRuns(c)
    /\ cpc' = [cpc EXCEPT ![c] = "leaving"]
    /\ store' = StoreAfterExit(c)
    /\ UNCHANGED <<client, nread, sessions, Send, broadcast, direct, chat,
                   wpump, unregs>>
    /\ UNCHANGED <<cfgMax, plan, pc, attempt, watch, snap, err, status>>
    /\ UNCHANGED <<limiterVars, pageVars, trackVars, backlogVars>>

\* the same when the failed read is that of a Conn WritePump has closed
ReadClosedConn(c) == ConnClosed(c) /\ ReadPumpExit(c)

\* Hub.Run takes the client from h.unregister: unregisterClient
HubTakeUnregister(c) ==
    /\ cpc[c] = "leaving"
    /\ unregisterClient(c)
    /\ UNCHANGED outsideHub

\* Hub.Run: one turn of the loop.  No case of the select waits for a Send
\* channel
HubLoopMutant ==
    /\ \A d \in UNION {sessions[s] : s \in DOMAIN sessions} :
            Len(Send[d]) < QueueCap
    /\ \/ \E c \in Conns : HubRegister(c)
       \/ \E c \in Conns : HubTakeUnregister(c)
       \/ HubBroadcast
       \/ HubDirect

HubLoop ==
    \/ \E c \in Conns : HubRegister(c)
    \/ \E c \in Conns : HubTakeUnregister(c)
    \/ HubBroadcast
    \/ HubDirect

\* the host and a viewer in one room, another viewer in either room
InitLoop ==
    \E sid \in {RoomID, SecondRoom} :
        InitHubWith([c \in 1..NumConns |->
                        IF c = 1 THEN NewClient(c, RoomID, HostUser, TRUE)
                        ELSE IF c = 2 THEN NewClient(c, RoomID, 1, FALSE)
                        ELSE NewClient(c, sid, 2, FALSE)])

\* the frames of these runs: chat, which is broadcast, and offers, which go
\* to their target
LoopTypes == {MessageTypeChat, MessageTypeWebRTCOffer}

NextLoop ==
    \/ HubLoop
    \/ \E c \in Conns : \E type \in LoopTypes : \E target \in TargetIDs(type) :
            HandleMessage(c, type, target)
    \/ \E c \in Conns : ReadPumpExit(c)
    \/ \E c \in Conns : WritePump(c)

\* Hub.Run is a goroutine that is always runnable when a channel has
\* something for it.  Nothing makes a peer read what WritePump writes, or
\* close
FairSpecLoop == InitLoop /\ [][NextLoop]_vars /\ WF_vars(HubLoop)

\* the host and a viewer in one room, a viewer in the other
InitDown ==
    InitHubWith([c \in 1..NumConns |->
                    IF c = 1 THEN NewClient(c, RoomID, HostUser, TRUE)
                    ELSE IF c = 2 THEN NewClient(c, RoomID, 1, FALSE)
                    ELSE NewClient(c, SecondRoom, 2, FALSE)])

\* the hub with sockets whose writes can fail, the clients sending offers
NextDown ==
    \/ HubLoop
    \/ \E c \in Conns : \E target \in TargetIDs(MessageTypeWebRTCOffer) :
            HandleMessage(c, MessageTypeWebRTCOffer, target)
    \/ \E c \in Conns : ReadPumpExit(c)
    \/ \E c \in Conns : WritePump(c)
    \/ \E c \in Conns : WriteFail(c)

\* as FairSpecLoop; and a read on a closed Conn fails at once
FairSpecDown ==
    /\ InitDown
    /\ [][NextDown]_vars
    /\ WF_vars(HubLoop)
    /\ \A c \in 1..NumConns : WF_vars(ReadClosedConn(c))

----------------------------------------------------------------------------
(* C35: whatever the Send channels hold and whether or not any connection  *)
(* ever reads its own, the hub comes to every request made to it: a client *)
(* waiting at Register is registered, a client waiting at Unregister is    *)
(* unregistered, and the broadcasts and direct messages of a connection    *)
(* that wait in the channels of the hub are taken from them.               *)
C35_HubLoopNeverStalls ==
    \A c \in 1..NumConns :
        /\ (cpc[c] = "new") ~> (cpc[c] # "new")
        /\ (cpc[c] = "leaving") ~> (cpc[c] = "gone")
        /\ (WaitingOf(c) # {}) ~> (WaitingOf(c) = {})

\* the hub has handled the chat frame of c while the Send channel of d, a
\* member of the room since before c, was full: d still holds the UserJoined
\* of c and its channel is full, c holds its own chat frame and d does not
C35_Witness ==
    \E c \in Registered : \E d \in Registered \ {c} : \E i \in DOMAIN Send[c] :
        /\ client[c].SessionID = client[d].SessionID
        /\ Full(d)
        /\ InSeq(UserJoined(c), Send[d])
        /\ Send[c][i].type = MessageTypeChat /\ Send[c][i].conn = c
        /\ ~InSeq(Send[c][i], Send[d])

----------------------------------------------------------------------------
(* C36: once the write of a connection has failed or its read has failed,  *)
(* the connection comes to be out of the room table with its Send channel  *)
(* closed, its ReadPump past Unregister and its WritePump returned.        *)
C36_TeardownCompletes ==
    \A c \in 1..NumConns :
        (wpump[c] = "failed" \/ cpc[c] = "leaving") ~>
            /\ cpc[c] = "gone"
            /\ c \notin Registered
            /\ Send[c] = <<>>
            /\ wpump[c] # "run"

\* a connection whose write failed has been unregistered, once
C36_Witness ==
    \E c \in Conns :
        /\ wpump[c] = "failed"
        /\ cpc[c] = "gone"
        /\ unregs[c] = 1
        /\ c \notin Registered

----------------------------------------------------------------------------
(***************************************************************************)
(* The Session Store and the hub together: the host creates the room and   *)
(* a viewer joins it (and may be removed by a RemoveParticipant call),     *)
(* and each of them opens a transport connection with the token of the     *)
(* create or join response.                                                *)
(***************************************************************************)

\* CreateSession / JoinSession have returned the token of participant uid
TokenIssued(uid) ==
    \E p \in Procs :
        /\ plan[p].op \in {"create", "join"}
        /\ plan[p].uid = uid
        /\ pc[p] = "done" /\ err[p] = NoErr

\* HandleWebSocket of a client that passed UpgradeMiddleware: hub.Register
Connect(c) == TokenIssued(client[c].UserID) /\ HubRegister(c)

\* the requests: create, then the join of viewer 1, then, in some runs, the
\* RemoveParticipant call for viewer 1
LifecyclePlan(withRemove) ==
    [p \in IF withRemove THEN {0, 1, 2} ELSE {0, 1} |->
        IF p = 0 THEN CreateCall
        ELSE IF p = 1 THEN JoinCall(1, RoomID, "good", {0})
        ELSE Call("remove", RoomID, 1, "", {1})]

InitLifecycle ==
    \E withRemove \in BOOLEAN :
        /\ Requests(DefaultMaxParticipants, LifecyclePlan(withRemove))
        /\ NoCalls
        /\ NoPages
        /\ NoTracks
        /\ NoSaves
        /\ Connections([c \in {1, 2} |->
                IF c = 1 THEN NewClient(c, RoomID, HostUser, TRUE)
                ELSE NewClient(c, RoomID, 1, FALSE)])

NextLifecycle ==
    \/ \E p \in Procs : CreateSession(p)
    \/ \E p \in Procs : JoinSession(p)
    \/ \E p \in Procs : Watch(p)
    \/ \E p \in Procs : TxGet(p)
    \/ \E p \in Procs : Exec(p)
    \/ \E c \in Conns : Connect(c)
    \/ \E c \in Conns : ReadPumpExit(c)
    \/ \E c \in Conns : HubTakeUnregister(c)
    \/ \E c \in Conns : WritePump(c)

SpecLifecycle == InitLifecycle /\ [][NextLifecycle]_vars

\* this step registers a connection, ends its ReadPump or unregisters it
LifecycleStep == \E c \in Conns : cpc'[c] # cpc[c]

\* this step is a step of a create, join or RemoveParticipant request
RequestStep == \E p \in Procs : pc'[p] # pc[p]

\* a RemoveParticipant call for uid has started
RemoveStarted(uid) ==
    \E p \in Procs :
        plan[p].op = "remove" /\ plan[p].uid = uid /\ pc[p] # "start"

----------------------------------------------------------------------------
(* C40: a step that registers a connection, ends its ReadPump or           *)
(* unregisters it leaves the Session Store as it is; the store changes     *)
(* only in steps of create, join and RemoveParticipant requests; and the   *)
(* participant of a connection that is closing or closed is in the roster  *)
(* of the room unless a RemoveParticipant call for them has started.       *)
C40_LifecycleLeavesStore ==
    /\ [][LifecycleStep => store' = store]_vars
    /\ [][store' # store => RequestStep]_vars
    /\ [](\A c \in Conns :
            cpc[c] \in {"leaving", "gone"} /\ ~RemoveStarted(client[c].UserID)
                => InSeq(client[c].UserID, Roster))

\* the viewer has joined, connected and disconnected, every request has
\* returned, none of them a removal, and the viewer is in the roster
C40_Witness ==
    /\ AllDone
    /\ \A p \in Procs : plan[p].op # "remove"
    /\ \E c \in Conns :
        /\ client[c].UserID = 1
        /\ cpc[c] = "gone"
        /\ Roster = <<HostUser, 1>>

====
